---- MODULE Spec2Model ----
(***************************************************************************)
(* Model of the editing core of d0rianb/text-editor: the line buffers, the *)
(* cursor, the selection range and the modifier snapshot of Editor, driven *)
(* by the window handler's keyboard and mouse callbacks (src/src/main.rs). *)
(*                                                                         *)
(* Representation.  A character is a one-character string, a buffer a      *)
(* sequence of them (Vec<String>).  Rows and columns are 0-based as in the *)
(* source; sequences are 1-based, so row y is lines[y + 1].  An Option is   *)
(* a sequence of length 0 (None) or 1 (Some).  A u32 is kept as the i32    *)
(* with the same 32 bits, so that the wrapped result of `(n as i32 - d)    *)
(* as u32` for n < d, 2^32 + n - d, is the negative number n - d; the      *)
(* comparisons the source makes on u32 are made with ULt.  A panic (failed *)
(* index, unwrap or assert) sets `crashed`: the process is gone and no     *)
(* handler runs after it.                                                  *)
(***************************************************************************)
EXTENDS Integers, Sequences, FiniteSets, TLC

VARIABLES ed, pre, mid, ev, steps, call, tween, twin

vars == <<ed, pre, mid, ev, steps, call, tween, twin>>

\* Number of keyboard and mouse events delivered to the window.
MaxSteps == 3

\* Width of the text area in character cells (editor_size.x / char_width).
EditorCols == 61

None == <<>>
Some(v) == <<v>>
IsSome(o) == Len(o) = 1
Unwrap(o) == o[1]

Pos(x, y) == [x |-> x, y |-> y]

\* Unsigned order on u32 values kept as i32 bit patterns.
ULt(a, b) == IF (a < 0) = (b < 0) THEN a < b ELSE b < 0
UMin(a, b) == IF ULt(b, a) THEN b ELSE a

Min(a, b) == IF a < b THEN a ELSE b
Max(a, b) == IF a > b THEN a ELSE b
\* Clamp that wraps around: below lo gives hi, above hi gives lo.
ClampAround(v, lo, hi) == IF v < lo THEN hi ELSE IF v > hi THEN lo ELSE v
Clamp(v, lo, hi) == IF v < lo THEN lo ELSE IF v > hi THEN hi ELSE v
Abs(v) == IF v < 0 THEN -v ELSE v

\* Vec::insert(index, v) for 0 <= index <= Len(s).
InsertAt(s, index, v) == SubSeq(s, 1, index) \o <<v>> \o SubSeq(s, index + 1, Len(s))
\* Vec::remove(index) for 0 <= index < Len(s).
RemoveAt(s, index) == SubSeq(s, 1, index) \o SubSeq(s, index + 2, Len(s))
\* Vec::drain(a .. b) for 0 <= a <= b <= Len(s): what is left.
Drain(s, a, b) == SubSeq(s, 1, a) \o SubSeq(s, b + 1, Len(s))
\* Vec::swap(i, j).
Swap(s, i, j) == [s EXCEPT ![i + 1] = s[j + 1], ![j + 1] = s[i + 1]]

(***************************************************************************)
(* range.rs                                                                *)
(***************************************************************************)
\* A Range with no endpoint set.
EmptyRange == [start |-> None, end |-> None]

NewRange(s, e) == [start |-> Some(s), end |-> Some(e)]

\* The later of two positions in document order (row first, then column).
vector_max(v1, v2) ==
    IF ULt(v1.y, v2.y) THEN v2
    ELSE IF ULt(v2.y, v1.y) THEN v1
    ELSE IF ULt(v1.x, v2.x) THEN v2
    ELSE v1

\* vector_min that takes the first position for the earlier one.
vector_min_first(v1, v2) == v1
vector_min(v1, v2) == IF vector_max(v1, v2) = v2 THEN v1 ELSE v2

\* is_valid that asks for the two endpoints only, not that they differ.
is_valid_both_set(r) == IsSome(r.start) /\ IsSome(r.end)
is_valid(r) == IsSome(r.start) /\ IsSome(r.end) /\ r.start # r.end

get_real_start(r) ==
    IF ~is_valid(r) THEN None ELSE Some(vector_min(Unwrap(r.start), Unwrap(r.end)))

get_real_end(r) ==
    IF ~is_valid(r) THEN None ELSE Some(vector_max(Unwrap(r.start), Unwrap(r.end)))

\* get_line_length(i, lines).  For i = u32::MAX, `i + 1` overflows: a debug
\* build panics there and a release build wraps to 0 and panics on lines[i];
\* the result -1 stands for that panic.
get_line_length(i, lines) ==
    IF i = -1 THEN -1
    ELSE IF i < 0 \/ i + 1 > Len(lines) THEN 0
    ELSE Len(lines[i + 1].buffer)

\* Range::get_lines_index: [ok, idx].  ok is FALSE when the call cannot
\* return: the rows run from a small row up to a wrapped one (a result vector
\* of some 2^32 pairs).  Row u32::MAX can only be the last row of the loop, for
\* which get_line_length is not called.
get_lines_index(r, lines) ==
    LET pair(start, end, y) ==
            IF y = start.y
            THEN IF start.y = end.y THEN <<start.x, end.x>>
                 ELSE <<start.x, get_line_length(y, lines)>>
            ELSE IF y = end.y THEN <<0, end.x>>
            ELSE <<0, get_line_length(y, lines)>>
        rows(start, end) ==
            IF (start.y < 0) # (end.y < 0) THEN [ok |-> FALSE, idx |-> <<>>]
            ELSE [ok |-> TRUE,
                  idx |-> [i \in 1 .. end.y - start.y + 1 |-> pair(start, end, start.y + i - 1)]]
    IN IF ~is_valid(r) THEN [ok |-> TRUE, idx |-> <<>>]
       ELSE rows(Unwrap(get_real_start(r)), Unwrap(get_real_end(r)))

\* Range::add that leaves the start of a valid receiver where it is.
range_add_keeping_start(r, other) ==
    IF ~is_valid(other) THEN r
    ELSE IF ~is_valid(r) THEN [start |-> other.start, end |-> other.end]
    ELSE [start |-> r.start,
          end |-> Some(vector_max(Unwrap(r.end), Unwrap(other.end)))]

\* Range::add.
range_add(r, other) ==
    IF ~is_valid(other) THEN r
    ELSE IF ~is_valid(r) THEN [start |-> other.start, end |-> other.end]
    ELSE [start |-> Some(vector_min(Unwrap(r.start), Unwrap(other.start))),
          end |-> Some(vector_max(Unwrap(r.end), Unwrap(other.end)))]

\* Range::include.
include(r, other) ==
    /\ is_valid(r)
    /\ is_valid(other)
    /\ vector_min(Unwrap(r.start), Unwrap(other.start)) = Unwrap(r.start)
    /\ vector_max(Unwrap(r.end), Unwrap(other.end)) = Unwrap(r.end)

(***************************************************************************)
(* font.rs, line.rs                                                        *)
(***************************************************************************)
\* str::replace on a sequence of characters: the matches of pat, from the
\* left and not overlapping, become rep.
RECURSIVE Replace(_, _, _)
Replace(s, pat, rep) ==
    IF Len(s) < Len(pat) THEN s
    ELSE IF SubSeq(s, 1, Len(pat)) = pat
         THEN rep \o Replace(SubSeq(s, Len(pat) + 1, Len(s)), pat, rep)
         ELSE <<s[1]>> \o Replace(SubSeq(s, 2, Len(s)), pat, rep)

\* Font::format: the ligature substitutions, in the order of the source.  The
\* glyphs U+2192, U+2190, U+2260, U+2264, U+2265 are written "u2192", ...
format(text) ==
    LET t1 == Replace(text, <<"-", "-", ">">>, <<"u2192">>)
        t2 == Replace(t1, <<"-", ">">>, <<"u2192">>)
        t3 == Replace(t2, <<"<", "-", "-">>, <<"u2190">>)
        t4 == Replace(t3, <<"<", "-">>, <<"u2190">>)
        t5 == Replace(t4, <<"!", "=">>, <<"u2260">>)
        t6 == Replace(t5, <<"<", "=">>, <<"u2264">>)
    IN Replace(t6, <<">", "=">>, <<"u2265">>)

\* Line::new.  layout_len is the number of characters of the cached layout
\* (style_block[0]); alignment_offset is kept in character cells, rounded as
\* get_valid_cursor_position rounds it (offset / char_width + 0.5).
NewLine == [buffer |-> <<>>, alignment |-> "Left", alignment_offset |-> 0, layout_len |-> 0]

\* Line::add_text with the text given as a sequence of characters.
line_add_text(line, text) == [line EXCEPT !.buffer = @ \o text]

\* Line::set_alignment: the offset is derived from the cached layout's width.
set_alignment(line, alignment) ==
    [line EXCEPT !.alignment = alignment,
                 !.alignment_offset =
                     CASE alignment = "Left" -> 0
                       [] alignment = "Center" -> (EditorCols + 1 - line.layout_len) \div 2
                       [] alignment = "Right" -> EditorCols - line.layout_len]

\* Line::update_text_layout: [line, diff].
line_update_text_layout(line) ==
    LET layout(formatted) ==
            [line |-> [line EXCEPT !.buffer = formatted, !.layout_len = Len(formatted)],
             diff |-> Len(line.buffer) - Len(formatted)]
    IN layout(format(line.buffer))

char_jump_list == {" ", "_", "-", "/", "(", ")", "[", "]", "{", "}", "\"", "'"}

\* `while i > 0 && P(chars[i - 1]) { i -= 1 }` with P = (membership in set) = inset.
RECURSIVE ScanLeft(_, _, _, _)
ScanLeft(chars, i, set, inset) ==
    IF i > 0 /\ ((chars[i] \in set) = inset) THEN ScanLeft(chars, i - 1, set, inset) ELSE i

\* `while i < len && P(chars[i]) { i += 1 }`.
RECURSIVE ScanRight(_, _, _, _)
ScanRight(chars, i, set, inset) ==
    IF i < Len(chars) /\ ((chars[i + 1] \in set) = inset)
    THEN ScanRight(chars, i + 1, set, inset) ELSE i

\* get_next_jump without its first loops: only the run of non-delimiters next
\* to the index is passed, a run of delimiters stops the jump.
get_next_jump_one_run(line, index) ==
    IF index < 0 \/ index > Len(line.buffer) THEN [ok |-> FALSE, start |-> 0, end |-> 0]
    ELSE [ok |-> TRUE,
          start |-> ScanLeft(line.buffer, index, char_jump_list, FALSE),
          end |-> ScanRight(line.buffer, index, char_jump_list, FALSE)]

\* Line::get_next_jump: [ok, start, end].  The first loop reads
\* chars[index - 1], which panics for an index past the end of the line.
get_next_jump(line, index) ==
    IF index < 0 \/ index > Len(line.buffer) THEN [ok |-> FALSE, start |-> 0, end |-> 0]
    ELSE [ok |-> TRUE,
          start |-> ScanLeft(line.buffer,
                             ScanLeft(line.buffer, index, char_jump_list, TRUE),
                             char_jump_list, FALSE),
          end |-> ScanRight(line.buffer,
                            ScanRight(line.buffer, index, char_jump_list, TRUE),
                            char_jump_list, FALSE)]

\* Line::get_word_at: [ok, start, end].
get_word_at(line, index) ==
    IF index < 0 \/ index > Len(line.buffer) THEN [ok |-> FALSE, start |-> 0, end |-> 0]
    ELSE [ok |-> TRUE,
          start |-> ScanLeft(line.buffer, index, {" "}, FALSE),
          end |-> ScanRight(line.buffer, index, {" "}, FALSE)]

(***************************************************************************)
(* animation.rs: the tween.  An f32 is kept exactly where the source's      *)
(* arithmetic is exact on the inputs drawn here: a progress is a number of *)
(* TUnit-ths, a speed and an eased progress are fractions [num, den], and  *)
(* a from, to or value is a number of pixels, an interpolated value being  *)
(* rounded down to a whole pixel.  0 / 0 is NaN: `nan` says that last_t    *)
(* and value are NaN.  The Redraw requests an animation sends only ask for *)
(* a repaint and are left out.                                             *)
(***************************************************************************)
\* The progress 1.0.
TUnit == 4

EasingFunctions ==
    {"Linear", "SmoothStep", "SmootherStep", "EaseIn", "EaseOut", "EaseInOut",
     "EaseInBack", "EaseOutBack"}

\* The closure get_easing_fn(f) applied to t / TUnit.
get_easing_fn(f, t) ==
    LET U == TUnit
    IN CASE f = "Linear" -> [num |-> t, den |-> U]
         [] f = "SmoothStep" -> [num |-> (3 * U - 2 * t) * t * t, den |-> U * U * U]
         [] f = "SmootherStep" ->
                [num |-> (6 * t * t - 15 * t * U + 10 * U * U) * t * t * t,
                 den |-> U * U * U * U * U]
         [] f = "EaseIn" -> [num |-> t * t, den |-> U * U]
         [] f = "EaseOut" -> [num |-> U * U - (U - t) * (U - t), den |-> U * U]
         [] f = "EaseInOut" ->
                IF 2 * t < U THEN [num |-> 2 * t * t, den |-> U * U]
                ELSE [num |-> 2 * U * U - (2 * U - 2 * t) * (2 * U - 2 * t), den |-> 2 * U * U]
         [] f = "EaseInBack" ->
                [num |-> 270158 * t * t * t - 170158 * t * t * U, den |-> 100000 * U * U * U]
         [] f = "EaseOutBack" ->
                [num |-> 100000 * U * U * U + 170158 * (t - U) * (t - U) * (t - U)
                           + 270158 * (t - U) * (t - U) * U,
                 den |-> 100000 * U * U * U]

\* Animation::new.
NewAnimation(from, to, duration, easing) ==
    [from |-> from,
     to |-> to,
     duration |-> duration,
     easing |-> easing,
     value |-> from,
     has_started |-> FALSE,
     is_paused |-> FALSE,
     is_ended |-> (from = to),
     speed |-> [num |-> Abs(to - from), den |-> duration],
     last_t |-> 0,
     nan |-> FALSE]

animation_start_armed(a) == [a EXCEPT !.has_started = TRUE]
\* Animation::start.
animation_start(a) == [a EXCEPT !.is_ended = (a.from = a.to), !.has_started = TRUE]

\* Animation::reset.
animation_reset(a) == [a EXCEPT !.last_t = 0, !.is_paused = FALSE, !.has_started = FALSE, !.is_ended = FALSE]

\* Animation::pause.
animation_pause(a) == [a EXCEPT !.is_paused = TRUE]

\* Animation::resume.
animation_resume(a) == [a EXCEPT !.is_paused = FALSE]

\* Animation::toggle.
animation_toggle(a) == IF a.is_paused THEN animation_resume(a) ELSE animation_pause(a)

\* Animation::update.  With to = from the increment of t is 0 / 0: t is NaN,
\* neither comparison of line 120 holds, and last_t and value become NaN.
animation_update(a, delta_time) ==
    LET eased(t) == get_easing_fn(a.easing, t)
        interpolate(e) == a.from + ((a.to - a.from) * e.num) \div e.den
        advance(t) ==
            IF t >= TUnit \/ t <= 0 THEN [a EXCEPT !.is_ended = TRUE]
            ELSE [a EXCEPT !.last_t = t, !.value = interpolate(eased(t))]
    IN IF ~a.has_started \/ a.is_paused \/ a.is_ended THEN a
       ELSE IF a.nan \/ a.to = a.from THEN [a EXCEPT !.nan = TRUE]
       ELSE advance(Clamp(a.last_t + (delta_time * a.speed.num * TUnit)
                                       \div (a.speed.den * Abs(a.to - a.from)),
                          0, TUnit))

(***************************************************************************)
(* selection.rs, cursor.rs, editor.rs: the editor's logical state          *)
(***************************************************************************)
NoModifiers == [shift |-> FALSE, alt |-> FALSE, logo |-> FALSE, ctrl |-> FALSE]

\* The cell of the font in whole pixels (Font::char_width, Font::char_height).
CharWidth == 19
CharHeight == 36

\* EDITOR_PADDING and EDITOR_OFFSET_TOP.
EDITOR_PADDING == 10
EDITOR_OFFSET_TOP == 55

\* ANIMATION_DURATION, and the `duration` of Cursor::transition and
\* Camera::transition, in milliseconds.
ANIMATION_DURATION == 100

\* `n as f32 * size` for a u32 n.  A column that has wrapped below zero is
\* more than 2^31 cells to the right: its pixel position is kept as Far.
Far == 100000000
Pixels(n, size) == IF n < 0 THEN Far ELSE n * size

\* Vector2<Option<Animation>> with both slots empty.
NoAnimation == [x |-> None, y |-> None]

\* The pair of animations the transitions build: from (from_x, from_y) to
\* (to_x, to_y) with EasingFunction::SmootherStep.
Transition(from_x, from_y, to_x, to_y) ==
    [x |-> Some(NewAnimation(from_x, to_x, ANIMATION_DURATION, "SmootherStep")),
     y |-> Some(NewAnimation(from_y, to_y, ANIMATION_DURATION, "SmootherStep"))]

\* Camera::new(1200., 800., (0., EDITOR_OFFSET_TOP), EDITOR_PADDING).
NewCamera ==
    [x |-> 0,
     y |-> 0,
     width |-> 1200 - 2 * EDITOR_PADDING - 0,
     height |-> 800 - 2 * EDITOR_PADDING - EDITOR_OFFSET_TOP,
     initial_x |-> 0 - EDITOR_PADDING - 0,
     initial_y |-> 0 - EDITOR_PADDING - EDITOR_OFFSET_TOP,
     safe_zone_size |-> 30,
     animation |-> NoAnimation]

\* Editor::new together with the EditorWindowHandler built in main().
\*   menu            what the contextual menu shows ("Closed": not visible)
\*   mouse_pressed   mouse_button_pressed.0
\*   mouse_position  the cell of the character grid under the pointer
\*   focus           the element the keyboard goes to
\*   queue           the user events sent and not yet delivered
\*   underline_buffer, bold_buffer   the ranges of underlined and of bold text
\*   cursor_animation                cursor.animation
\*   start_animation, end_animation  the animations of the selection's endpoints
\*   camera_calls    the cells of the cursor at the calls of update_camera
\*                   the running callback has made
\*   tracked         whether the rendering state (the camera and the animation
\*                   slots) is followed: where it is not (the specifications
\*                   that deliver no tick), it stays as constructed
NewEditor ==
    [tracked |-> FALSE,
     lines |-> <<NewLine>>,
     cursor |-> Pos(0, 0),
     cursor_animation |-> NoAnimation,
     camera |-> NewCamera,
     camera_calls |-> <<>>,
     selection |-> EmptyRange,
     start_animation |-> NoAnimation,
     end_animation |-> NoAnimation,
     modifiers |-> NoModifiers,
     menu |-> "Closed",
     mouse_pressed |-> FALSE,
     mouse_position |-> Pos(0, 0),
     focus |-> "Editor",
     queue |-> <<>>,
     underline_buffer |-> <<>>,
     bold_buffer |-> <<>>,
     crashed |-> FALSE]

\* UserEventSender::send_event.
send_event(e, event) == [e EXCEPT !.queue = Append(@, event)]

\* ContextualMenu::open_with: the items are shown and the menu asks for the
\* keyboard focus.
open_with(e, items) == send_event([e EXCEPT !.menu = items], "FocusMenu")

\* ContextualMenu::unfocus (the menu of the editor: previous_focus is Editor).
unfocus(e) == [send_event(e, "FocusEditor") EXCEPT !.menu = "Closed"]

\* ContextualMenu::close.
menu_close(e) == unfocus([e EXCEPT !.menu = "Closed"])

\* A panic: failed index, unwrap or assert.
Panic(e) == [e EXCEPT !.crashed = TRUE]

ValidRow(e, y) == y >= 0 /\ y < Len(e.lines)

Buffer(e, y) == e.lines[y + 1].buffer

\* Selection::start / end / is_valid / set_start / set_end / reset.
selection_start(e) == get_real_start(e.selection)
selection_end(e) == get_real_end(e.selection)
selection_is_valid(e) == is_valid(e.selection)
set_start(e, p) ==
    LET from(start) == Transition(Pixels(start.x, CharWidth), Pixels(start.y, CharHeight),
                                  Pixels(p.x, CharWidth), Pixels(p.y, CharHeight))
    IN [e EXCEPT !.selection.start = Some(p),
                 !.start_animation = IF e.tracked /\ IsSome(e.selection.start)
                                     THEN from(Unwrap(e.selection.start)) ELSE @]
set_end(e, p) ==
    LET from(end) == Transition(Pixels(end.x, CharWidth), Pixels(end.y, CharHeight),
                                Pixels(p.x, CharWidth), Pixels(p.y, CharHeight))
    IN [e EXCEPT !.selection.end = Some(p),
                 !.end_animation = IF e.tracked /\ IsSome(e.selection.end)
                                   THEN from(Unwrap(e.selection.end)) ELSE @]
selection_reset(e) ==
    [e EXCEPT !.selection = EmptyRange,
              !.start_animation = NoAnimation,
              !.end_animation = NoAnimation]

\* Cursor::real_x / real_y: the pixel position of the cursor's cell, whatever
\* the animation.
real_x(e) == Pixels(e.cursor.x, CharWidth)
real_y(e) == Pixels(e.cursor.y, CharHeight)

\* Cursor::computed_x / computed_y.
cursor_computed_x(e) ==
    IF IsSome(e.cursor_animation.x) THEN Unwrap(e.cursor_animation.x).value ELSE real_x(e)
cursor_computed_y(e) ==
    IF IsSome(e.cursor_animation.y) THEN Unwrap(e.cursor_animation.y).value ELSE real_y(e)

\* A move_to whose transition starts at the pixel position of the cell the
\* cursor leaves instead of the last computed position.
move_to_from_cell(e, x, y) ==
    [e EXCEPT !.cursor_animation =
                  IF e.tracked
                  THEN Transition(real_x(e), real_y(e),
                                  Pixels(x, CharWidth), Pixels(y, CharHeight))
                  ELSE @,
              !.cursor = Pos(x, y)]

\* Cursor::move_to, with the transition it starts.
move_to(e, x, y) ==
    [e EXCEPT !.cursor_animation =
                  IF e.tracked
                  THEN Transition(cursor_computed_x(e), cursor_computed_y(e),
                                  Pixels(x, CharWidth), Pixels(y, CharHeight))
                  ELSE @,
              !.cursor = Pos(x, y)]

\* Camera::computed_x / computed_y.
camera_computed_x(c) ==
    IF IsSome(c.animation.x) THEN Unwrap(c.animation.x).value ELSE c.x + c.initial_x
camera_computed_y(c) ==
    IF IsSome(c.animation.y) THEN Unwrap(c.animation.y).value ELSE c.y + c.initial_y

\* Camera::transition.
camera_transition(c, x, y) ==
    [c EXCEPT !.animation = Transition(camera_computed_x(c), camera_computed_y(c), x, y)]

\* Camera::move_x / move_y.
move_x(c, dx) ==
    LET moved(new_x) == [camera_transition(c, new_x + c.initial_x, c.y + c.initial_y)
                           EXCEPT !.x = new_x]
    IN moved(Max(c.x + dx, 0))
move_y(c, dy) ==
    LET moved(new_y) == [camera_transition(c, c.x + c.initial_x, new_y + c.initial_y)
                           EXCEPT !.y = new_y]
    IN moved(Max(c.y + dy, 0))

\* Camera::get_cursor_x_with_offset / get_cursor_y_with_offset.
get_cursor_x_with_offset(c, e) == real_x(e) + c.initial_x - CharWidth
get_cursor_y_with_offset(c, e) == real_y(e) + c.initial_y - CharHeight

\* Editor::update_camera.
update_camera(e) ==
    LET padding == EDITOR_PADDING
        horizontal(c, computed_x) ==
            IF get_cursor_x_with_offset(c, e) < computed_x + c.safe_zone_size
            THEN move_x(c, get_cursor_x_with_offset(c, e) - computed_x - c.safe_zone_size)
            ELSE IF padding + real_x(e) - computed_x > c.width - c.safe_zone_size
            THEN move_x(c, padding + real_x(e) - computed_x - c.width + c.safe_zone_size)
            ELSE c
        vertical(c, computed_y) ==
            IF get_cursor_y_with_offset(c, e) < computed_y + c.safe_zone_size
            THEN move_y(c, get_cursor_y_with_offset(c, e) - computed_y - c.safe_zone_size)
            ELSE IF padding + real_y(e) - computed_y > c.height - c.safe_zone_size
            THEN move_y(c, padding + real_y(e) - computed_y - c.height + c.safe_zone_size)
            ELSE c
        scroll_y(c) == vertical(c, camera_computed_y(c))
    IN IF e.tracked
       THEN [e EXCEPT !.camera = scroll_y(horizontal(e.camera, camera_computed_x(e.camera)))]
       ELSE e

\* A call of update_camera by an operation of the editor.  update_camera
\* reads the cursor's cell and the camera and writes the camera only, and no
\* other operation reads or writes the camera after on_mouse_move has set its
\* safe_zone_size, so the call is recorded with the cell of the cursor at the
\* call and is run when the callback returns (run_camera_calls).
call_update_camera(e) ==
    [e EXCEPT !.camera_calls = IF e.tracked THEN Append(@, e.cursor) ELSE @]

\* The calls of update_camera a callback has made, run in the order of the
\* calls, each with the cursor where it was at the call.
RECURSIVE run_camera_calls(_, _)
run_camera_calls(e, calls) ==
    IF calls = <<>> THEN e
    ELSE run_camera_calls([update_camera([e EXCEPT !.cursor = Head(calls)])
                             EXCEPT !.cursor = e.cursor],
                          Tail(calls))

\* The editor when a callback returns: its calls of update_camera have run.
returned_editor(e) == run_camera_calls([e EXCEPT !.camera_calls = <<>>], e.camera_calls)

\* Editor::get_valid_cursor_position (lines is not empty).
get_valid_cursor_position(e, position) ==
    LET max_y == Len(e.lines) - 1
        y == UMin(position.y, max_y)
        line == e.lines[y + 1]
    IN Pos(Clamp(position.x - line.alignment_offset, 0, Len(line.buffer)), y)

\* Editor::move_cursor.
move_cursor(e, position) ==
    LET place(pos) ==
            call_update_camera(IF pos # e.cursor THEN move_to(e, pos.x, pos.y) ELSE e)
    IN IF Len(e.lines) = 0 THEN Panic(e)
       ELSE place(get_valid_cursor_position(e, position))

\* First loop of delete_selection: drain the span of every row, [ok, lines].
RECURSIVE DrainRows(_, _, _, _)
DrainRows(lines, initial_i, idx, i) ==
    IF i > Len(idx) THEN [ok |-> TRUE, lines |-> lines]
    ELSE LET row == initial_i + i - 1
             a == idx[i][1]
             b == idx[i][2]
         IN IF row < 0 \/ row >= Len(lines) \/ a < 0 \/ b < 0
               \/ Max(a, b) > Len(lines[row + 1].buffer)
            THEN [ok |-> FALSE, lines |-> lines]
            ELSE DrainRows([lines EXCEPT ![row + 1].buffer = Drain(@, Min(a, b), Max(a, b))],
                           initial_i, idx, i + 1)

\* Second loop of delete_selection: from the last row of the span to the
\* first, remove the row when it is empty and not the only one.
RECURSIVE RemoveEmptyRows(_, _, _, _)
RemoveEmptyRows(lines, initial_i, n, i) ==
    IF i >= n THEN lines
    ELSE LET index == initial_i + n - i - 1
         IN IF Len(lines[index + 1].buffer) = 0 /\ Len(lines) > 1
            THEN RemoveEmptyRows(RemoveAt(lines, index), initial_i, n, i + 1)
            ELSE RemoveEmptyRows(lines, initial_i, n, i + 1)

\* Editor::delete_selection.
delete_selection(e) ==
    LET finish(e1) == selection_reset(move_cursor(e1, Unwrap(selection_start(e1))))
        remove(initial_i, li, drained) ==
            IF ~li.ok \/ ~drained.ok THEN Panic(e)
            ELSE finish([e EXCEPT !.lines =
                            RemoveEmptyRows(drained.lines, initial_i, Len(li.idx), 0)])
        drain(initial_i, li) == remove(initial_i, li, DrainRows(e.lines, initial_i, li.idx, 1))
    IN IF ~selection_is_valid(e) THEN e
       ELSE drain(UMin(Unwrap(selection_start(e)).y, Unwrap(selection_end(e)).y),
                  get_lines_index(e.selection, e.lines))

\* The swaps of switch_lines for dir < 0: rows i = from ..= to, swap(i, |i - 1|).
RECURSIVE SwapUp(_, _, _)
SwapUp(lines, i, to) ==
    IF i > to THEN [ok |-> TRUE, lines |-> lines]
    ELSE IF i < 0 \/ i >= Len(lines) \/ Abs(i - 1) >= Len(lines)
         THEN [ok |-> FALSE, lines |-> lines]
         ELSE SwapUp(Swap(lines, i, Abs(i - 1)), i + 1, to)

\* The swaps of switch_lines for dir > 0: i = 0 ..= index_end - index_start,
\* swap(index_end - i, index_end - i + 1).
RECURSIVE SwapDown(_, _, _, _)
SwapDown(lines, index_end, i, last) ==
    IF i > last THEN [ok |-> TRUE, lines |-> lines]
    ELSE IF index_end - i < 0 \/ index_end - i + 1 >= Len(lines)
         THEN [ok |-> FALSE, lines |-> lines]
         ELSE SwapDown(Swap(lines, index_end - i, index_end - i + 1), index_end, i + 1, last)

\* Editor::switch_lines.  The two selection updates each read the selection
\* again through start()/end(), which are None once the range is not valid.
switch_lines(e, dir) ==
    LET move(e2) ==
            IF e2.crashed THEN e2
            ELSE move_cursor(e2, Pos(e2.cursor.x, e2.cursor.y + dir))
        shift_start(e1, s) == set_start(e1, Pos(s.x, s.y + dir))
        shift_end(e1a, en) == set_end(e1a, Pos(en.x, en.y + dir))
        second(e1a) ==
            IF ~selection_is_valid(e1a) THEN Panic(e1a)
            ELSE shift_end(e1a, Unwrap(selection_end(e1a)))
        first(e1) ==
            IF ~selection_is_valid(e1) THEN e1
            ELSE second(shift_start(e1, Unwrap(selection_start(e1))))
        swap(index_start, index_end, swapped) ==
            \* a wrapped row as usize is out of range for every Vec
            IF ~(dir = 0 \/ (index_start >= 0 /\ index_end >= 0)) \/ ~swapped.ok THEN Panic(e)
            ELSE move(first([e EXCEPT !.lines = swapped.lines]))
        rows(index_start, index_end) ==
            swap(index_start, index_end,
                 IF dir < 0 THEN SwapUp(e.lines, index_start, index_end)
                 ELSE IF dir > 0 THEN SwapDown(e.lines, index_end, 0, index_end - index_start)
                 ELSE [ok |-> TRUE, lines |-> e.lines])
    IN rows(IF selection_is_valid(e) THEN Unwrap(selection_start(e)).y ELSE e.cursor.y,
            IF selection_is_valid(e) THEN Unwrap(selection_end(e)).y ELSE e.cursor.y)

\* Editor::move_cursor_relative.
move_cursor_relative(e, rel_x, rel_y) ==
    LET m == e.modifiers
        max_y == Len(e.lines) - 1
        \* the selection follows the cursor with Shift, and is dropped by a plain move
        follow(f) ==
            call_update_camera(
                IF m.shift THEN set_end(f, f.cursor)
                ELSE IF (rel_x # 0 \/ rel_y # 0) /\ selection_is_valid(f) /\ ~(m.logo /\ m.ctrl)
                     THEN selection_reset(f)
                     ELSE f)
        \* nothing runs after a panic
        reset(f) == IF f.crashed THEN f ELSE selection_reset(f)
        \* move inside a line, the column kept inside the buffer of new_y
        inside(f, new_x, new_y, new_buffer_len) ==
            follow(move_to(f, IF new_x >= new_buffer_len THEN new_buffer_len ELSE new_x, new_y))
        place(f, new_x, new_y) ==
            IF selection_is_valid(f) /\ ~m.shift /\ ~(m.logo /\ m.ctrl) /\ (rel_x # 0 \/ rel_y # 0)
            THEN \* collapse onto the end (right/down) or the start (left/up) of the selection
                 reset(move_cursor(f, Unwrap(IF rel_x > 0 \/ rel_y > 0 THEN selection_end(f)
                                             ELSE selection_start(f))))
            ELSE IF new_x < 0
            THEN \* go to the line before
                 IF f.cursor.y = 0 THEN f
                 ELSE follow(move_to(f, Len(Buffer(f, f.cursor.y - 1)), f.cursor.y - 1))
            ELSE IF new_x > Len(Buffer(f, f.cursor.y))
            THEN \* go to the line after
                 IF f.cursor.y >= Len(f.lines) - 1 THEN f
                 ELSE follow(move_to(f, 0, f.cursor.y + 1))
            ELSE inside(f, new_x, new_y, Len(Buffer(f, new_y)))
        moved(e2, new_x, new_y) ==
            IF e2.crashed THEN e2
            ELSE IF ValidRow(e2, e2.cursor.y) THEN place(e2, new_x, new_y) ELSE Panic(e2)
        \* Alt: word jump.  Cmd+Ctrl: line reorder.  Cmd: start/end of line/file.
        target(e1, jump, x0, y0) ==
            moved(IF m.alt THEN (IF jump.ok THEN e1 ELSE Panic(e1))
                  ELSE IF m.logo /\ m.ctrl THEN switch_lines(e1, rel_y)
                  ELSE e1,
                  IF m.alt
                  THEN IF rel_x < 0 /\ jump.start # e1.cursor.x THEN jump.start
                       ELSE IF rel_x > 0 /\ jump.end # e1.cursor.x THEN jump.end
                       ELSE x0
                  ELSE IF m.logo /\ ~m.ctrl
                       THEN IF rel_x < 0 THEN 0
                            ELSE IF rel_x > 0 THEN Len(Buffer(e1, e1.cursor.y))
                            ELSE x0
                       ELSE x0,
                  IF ~m.alt /\ m.logo /\ ~m.ctrl
                  THEN IF rel_y < 0 THEN 0 ELSE IF rel_y > 0 THEN max_y ELSE y0
                  ELSE y0)
        \* Shift arms the anchor at the position before the move
        armed(e1) ==
            target(e1, get_next_jump(e1.lines[e1.cursor.y + 1], e1.cursor.x),
                   e.cursor.x + rel_x, Clamp(e.cursor.y + rel_y, 0, max_y))
    IN IF ~ValidRow(e, e.cursor.y) /\ (m.alt \/ m.logo) THEN Panic(e)
       ELSE armed(IF m.shift /\ ~IsSome(selection_start(e)) THEN set_start(e, e.cursor) ELSE e)

\* Editor::update_text_layout: every line is re-formatted; the cursor moves
\* left by what its own line lost, `(cursor.x as i32 - difference) as u32`.
update_text_layout(e) ==
    LET apply(upd) ==
            move_to([e EXCEPT !.lines = [i \in 1 .. Len(e.lines) |-> upd[i].line]],
                    e.cursor.x - (IF ValidRow(e, e.cursor.y) THEN upd[e.cursor.y + 1].diff ELSE 0),
                    e.cursor.y)
    IN apply([i \in 1 .. Len(e.lines) |-> line_update_text_layout(e.lines[i])])

\* Editor::begin_selection / end_selection.
begin_selection(e) == set_start(e, e.cursor)
end_selection(e) == set_end(e, e.cursor)

\* Editor::select_current_word.
select_current_word(e) ==
    LET select(w) ==
            IF ~w.ok THEN Panic(e)
            ELSE set_end(set_start(e, Pos(w.start, e.cursor.y)), Pos(w.end, e.cursor.y))
    IN IF ~ValidRow(e, e.cursor.y) THEN Panic(e)
       ELSE select(get_word_at(e.lines[e.cursor.y + 1], e.cursor.x))

\* Editor::select_all.
select_all(e) ==
    set_end(set_start(e, Pos(0, 0)), Pos(Len(e.lines[Len(e.lines)].buffer), Len(e.lines) - 1))

\* Editor::select_current_line.
select_current_line(e) ==
    IF ~ValidRow(e, e.cursor.y) THEN Panic(e)
    ELSE LET line_selection == NewRange(Pos(0, e.cursor.y),
                                        Pos(Len(Buffer(e, e.cursor.y)), e.cursor.y))
         IN move_cursor([e EXCEPT !.selection = range_add(@, line_selection)],
                        Pos(0, e.cursor.y + 1))

\* Editor::copy, as far as the editor is concerned: get_selected_text reads
\* lines[start.y + i] for every row of the selection with a non-empty span.
copy(e) ==
    LET read(li, initial_y) ==
            IF ~li.ok \/ \E i \in 1 .. Len(li.idx) :
                            /\ ULt(li.idx[i][1], li.idx[i][2])
                            /\ ~ValidRow(e, initial_y + i - 1)
            THEN Panic(e) ELSE e
    IN IF ~selection_is_valid(e) THEN e
       ELSE read(get_lines_index(e.selection, e.lines), Unwrap(selection_start(e)).y)

\* Editor::duplicate_line.
duplicate_line(e) ==
    LET insert(index_start, line_slice) ==
            move_cursor([e EXCEPT !.lines = SubSeq(@, 1, index_start) \o line_slice
                                                \o SubSeq(@, index_start + 1, Len(@))],
                        Pos(e.cursor.x, e.cursor.y + Len(line_slice)))
        rows(index_start, index_end) ==
            IF index_start < 0 \/ index_end < 0 \/ index_end >= Len(e.lines) THEN Panic(e)
            ELSE insert(index_start, SubSeq(e.lines, index_start + 1, index_end + 1))
    IN rows(IF selection_is_valid(e) THEN Unwrap(selection_start(e)).y ELSE e.cursor.y,
            IF selection_is_valid(e) THEN Unwrap(selection_end(e)).y ELSE e.cursor.y)

\* The characters str::trim_start / trim remove, among those of the model.
Whitespace == {" "}

\* Number of leading whitespace characters.
RECURSIVE LeadingWs(_)
LeadingWs(text) ==
    IF Len(text) > 0 /\ text[1] \in Whitespace THEN 1 + LeadingWs(Tail(text)) ELSE 0

\* Number of trailing whitespace characters.
RECURSIVE TrailingWs(_)
TrailingWs(text) ==
    IF Len(text) > 0 /\ text[Len(text)] \in Whitespace
    THEN 1 + TrailingWs(SubSeq(text, 1, Len(text) - 1)) ELSE 0

\* text.trim() as a sequence.
Trim(text) ==
    IF LeadingWs(text) = Len(text) THEN <<>>
    ELSE SubSeq(text, LeadingWs(text) + 1, Len(text) - TrailingWs(text))

\* n spaces.
Spaces(n) == [i \in 1 .. n |-> " "]

\* SplitLine with the text after the cursor copied to the new line and not
\* taken out of the current one.
SplitLineKeepingText(f) ==
    LET y == f.cursor.y
        x == f.cursor.x
    IN IF ~ValidRow(f, y) \/ x < 0 \/ x > Len(Buffer(f, y)) THEN Panic(f)
       ELSE LET current_buffer == Buffer(f, y)
                created == line_add_text(NewLine, SubSeq(current_buffer, x + 1,
                                                         Len(current_buffer)))
            IN [f EXCEPT !.lines = InsertAt(f.lines, y + 1, created)]

\* The split of Editor::new_line: the text after the cursor leaves the current
\* line for a new Line, inserted right after it.
SplitLine(f) ==
    LET y == f.cursor.y
        x == f.cursor.x
        index == y + 1
    IN IF ~ValidRow(f, y) \/ x < 0 \/ x > Len(Buffer(f, y)) THEN Panic(f)
       ELSE LET current_buffer == Buffer(f, y)
                text_after_cursor == SubSeq(current_buffer, x + 1, Len(current_buffer))
                created == line_add_text(NewLine, text_after_cursor)
                lines1 == [f.lines EXCEPT ![y + 1].buffer = SubSeq(current_buffer, 1, x)]
            IN [f EXCEPT !.lines = InsertAt(lines1, index, created)]

\* Editor::new_line.
new_line(e) ==
    LET \* nothing runs after a panic
        split(f0) == IF f0.crashed THEN f0 ELSE SplitLine(f0)
        \* the list continues: the prefix is appended to the new line
        continue(f1, index, aligned, nb_whitespace) ==
            open_with(move_cursor([f1 EXCEPT !.lines[index + 1] =
                                       line_add_text(aligned,
                                                     Spaces(nb_whitespace) \o <<"-", " ">>)],
                                  Pos(nb_whitespace + 2, index)),
                      "Chip")
        pattern(f1, index, aligned, text, trimmed) ==
            IF Len(trimmed) > 1 /\ trimmed[1] = "-"
            THEN continue(f1, index, aligned, LeadingWs(text))
            ELSE move_cursor([f1 EXCEPT !.lines[index + 1] = aligned], Pos(0, index))
        align(f1, index, line_before) ==
            pattern(f1, index, set_alignment(f1.lines[index + 1], line_before.alignment),
                    line_before.buffer, Trim(line_before.buffer))
        inserted(f1, index) ==
            IF f1.crashed THEN f1
            ELSE IF index = 1 THEN move_cursor(f1, Pos(0, index))
            ELSE align(f1, index, f1.lines[index])
        after_split(f1) == inserted(f1, f1.cursor.y + 1)
    IN after_split(split(delete_selection(e)))

\* The auto-pair templates of add_char: the closer of an opener, "" otherwise.
Openers == {"(", "[", "{", "\""}

Closer(c) ==
    CASE c = "(" -> ")"
      [] c = "[" -> "]"
      [] c = "{" -> "}"
      [] c = "\"" -> "\""
      [] OTHER -> ""

\* The loop of Editor::add_range_to_buffer over the entries of the buffer, from
\* the last one to the first; i entries are left to visit.
RECURSIVE add_range_loop(_, _, _)
add_range_loop(range, buffer, i) ==
    LET \* the entry contains the range: it is cut into what lies before and after
        split(before, after) ==
            RemoveAt(buffer \o (IF is_valid(before) THEN <<before>> ELSE <<>>)
                            \o (IF is_valid(after) THEN <<after>> ELSE <<>>), i - 1)
        visit(buffer_range) ==
            IF range = buffer_range THEN RemoveAt(buffer, i - 1)
            ELSE IF include(range, buffer_range)
                 THEN add_range_loop(range, RemoveAt(buffer, i - 1), i - 1)
            ELSE IF include(buffer_range, range)
                 THEN split(NewRange(Unwrap(get_real_start(buffer_range)),
                                     Unwrap(get_real_start(range))),
                            NewRange(Unwrap(get_real_end(range)),
                                     Unwrap(get_real_end(buffer_range))))
            ELSE add_range_loop(range, buffer, i - 1)
    IN IF i = 0 THEN Append(buffer, range) ELSE visit(buffer[i])

\* add_range_to_buffer that stores every valid range and removes nothing.
add_range_always(range, buffer) ==
    IF ~is_valid(range) THEN buffer ELSE Append(buffer, range)

\* Editor::add_range_to_buffer: the buffer after the call.
add_range_to_buffer(range, buffer) ==
    IF ~is_valid(range) THEN buffer ELSE add_range_loop(range, buffer, Len(buffer))

\* Selection::get_range.
get_range(e) == e.selection

\* Editor::underline and Editor::bold.  The SetDirty event they send only sets
\* the title of the window.
underline(e) ==
    [e EXCEPT !.underline_buffer = add_range_to_buffer(get_range(e), @)]

bold(e) ==
    [e EXCEPT !.bold_buffer = add_range_to_buffer(get_range(e), @)]

\* Editor::shortcut, for the commands that act on the document, the cursor or
\* the selection.
shortcut(e, c) ==
    LET \* nothing runs after a panic
        delete(f) == IF f.crashed THEN f ELSE delete_selection(f)
    IN CASE c = "u" -> underline(e)
         [] c = "c" -> copy(e)
         [] c = "x" -> delete(copy(e))
         [] c = "a" -> select_all(e)
         [] c = "l" -> select_current_line(e)
         [] c = "L" -> delete(select_current_line(e))
         [] c = "d" -> select_current_word(e)
         [] c = "D" -> duplicate_line(e)
         [] OTHER -> e

\* Editor::add_char.
add_char(e, c) ==
    LET after == Closer(c)
        insert_at(f, pos) ==
            IF ~ValidRow(f, f.cursor.y) \/ pos.x < 0 \/ pos.x > Len(Buffer(f, f.cursor.y))
            THEN Panic(f)
            ELSE [f EXCEPT !.lines[f.cursor.y + 1].buffer = InsertAt(@, pos.x, c)]
        insert(f) ==
            IF f.crashed THEN f
            ELSE insert_at(f, IF selection_is_valid(f) THEN Unwrap(selection_start(f))
                              ELSE f.cursor)
        insert_after_at(f, after_pos) ==
            IF ~ValidRow(f, after_pos.y) \/ after_pos.x < 0
               \/ after_pos.x + 1 > Len(Buffer(f, after_pos.y))
            THEN Panic(f)
            ELSE [f EXCEPT !.lines[after_pos.y + 1].buffer = InsertAt(@, after_pos.x + 1, after)]
        insert_after(f) ==
            IF f.crashed \/ after = "" THEN f
            ELSE insert_after_at(f, IF selection_is_valid(f) THEN Unwrap(selection_end(f))
                                    ELSE f.cursor)
        reset(f) == IF f.crashed THEN f ELSE selection_reset(f)
        advance(f) == IF f.crashed THEN f ELSE reset(move_cursor_relative(f, 1, 0))
    IN IF e.modifiers.logo THEN shortcut(e, c)
       ELSE advance(insert_after(insert(IF after = "" THEN delete_selection(e) ELSE e)))

\* Editor::delete_char.
delete_char(e) ==
    LET m == e.modifiers
        \* nothing runs after a panic
        end(f) == IF f.crashed THEN f ELSE end_selection(f)
        reset(f) == IF f.crashed THEN f ELSE selection_reset(f)
        layout(f) == IF f.crashed THEN f ELSE update_text_layout(f)
        \* the row joins the one before it
        merge(f, row, previous_size) ==
            selection_reset(move_to([f EXCEPT !.lines =
                                         RemoveAt([f.lines EXCEPT ![row].buffer =
                                                                     @ \o Buffer(f, row)], row)],
                                    previous_size, row - 1))
        \* the character right of the cursor goes too when it equals the one
        \* left of it and that one is an opener
        remove(f, pos, row, buffer) ==
            move_cursor_relative(
                [f EXCEPT !.lines[row + 1].buffer =
                     RemoveAt(IF /\ Len(buffer) > pos
                                 /\ buffer[pos] = buffer[pos + 1]
                                 /\ buffer[pos] \in Openers
                              THEN RemoveAt(buffer, pos) ELSE buffer, pos - 1)],
                -1, 0)
        at(f, pos, row) ==
            IF pos = 0
            THEN IF row = 0 THEN f  \* the first line is never deleted
                 ELSE IF ~ValidRow(f, row) THEN Panic(f)
                 ELSE layout(merge(f, row, Len(Buffer(f, row - 1))))
            ELSE IF ~ValidRow(f, row) \/ pos < 0 \/ pos > Len(Buffer(f, row)) THEN Panic(f)
            ELSE layout(reset(remove(f, pos, row, Buffer(f, row))))
        delete(f) ==
            IF f.crashed THEN f
            ELSE IF selection_is_valid(f) THEN delete_selection(f)
            ELSE at(f, f.cursor.x, f.cursor.y)
        \* Alt / Cmd: select back to the previous word / the start of the line
        select_back(f) == end(move_cursor_relative(begin_selection(f), -1, 0))
    IN delete(IF m.alt \/ m.logo THEN select_back(e) ELSE e)

\* Editor::set_line_alignment.
set_line_alignment(e, alignment) ==
    IF selection_is_valid(e)
    THEN LET start == Unwrap(selection_start(e)).y
             end == Unwrap(selection_end(e)).y
         IN [e EXCEPT !.lines = [i \in 1 .. Len(e.lines) |->
                                    IF start >= 0 /\ start <= i - 1 /\ ~ULt(end, i - 1)
                                    THEN set_alignment(e.lines[i], alignment)
                                    ELSE e.lines[i]]]
    ELSE IF ~ValidRow(e, e.cursor.y) THEN Panic(e)
    ELSE [e EXCEPT !.lines[e.cursor.y + 1] = set_alignment(@, alignment)]

\* Editor::toggle_ai_contextual_menu: the menu takes the keyboard focus.
toggle_ai_contextual_menu(e) ==
    LET open(e1) == IF e1.crashed THEN e1 ELSE open_with(e1, "AI")
    IN open(IF ~selection_is_valid(e) THEN select_current_word(e) ELSE e)

\* The match of Editor::handle_key: the operation bound to the key.
KeyOperation(e, keycode) ==
    LET ctrl_alt == e.modifiers.logo /\ e.modifiers.alt
        \* nothing runs after a panic
        delete(f) == IF f.crashed THEN f ELSE delete_char(f)
    IN      CASE keycode = "Right" -> IF ctrl_alt THEN set_line_alignment(e, "Right")
                                      ELSE move_cursor_relative(e, 1, 0)
              [] keycode = "Left" -> IF ctrl_alt THEN set_line_alignment(e, "Left")
                                     ELSE move_cursor_relative(e, -1, 0)
              [] keycode = "Up" -> IF ctrl_alt THEN set_line_alignment(e, "Center")
                                   ELSE move_cursor_relative(e, 0, -1)
              [] keycode = "Down" -> move_cursor_relative(e, 0, 1)
              [] keycode = "Backspace" -> delete_char(e)
              [] keycode = "Delete" -> delete(move_cursor_relative(e, 1, 0))
              [] keycode = "Return" -> IF e.modifiers.alt THEN toggle_ai_contextual_menu(e)
                                       ELSE new_line(e)
              [] keycode = "Escape" -> menu_close(e)

\* Editor::handle_key.
handle_key(e, keycode) ==
    LET layout(e1) == IF e1.crashed THEN e1 ELSE update_text_layout(e1)
    IN layout(KeyOperation(e, keycode))

\* Editor::cancel_chip.
cancel_chip(e) ==
    LET layout(e1) == IF e1.crashed THEN e1 ELSE update_text_layout(e1)
    IN IF ~ValidRow(e, e.cursor.y) THEN Panic(e)
       ELSE layout(new_line(move_to([e EXCEPT !.lines[e.cursor.y + 1].buffer = <<>>],
                                    0, e.cursor.y)))

\* Editor::update_selection, the pointer being over the cell `index` of the
\* character grid (get_mouse_position_index before its clamp to the document).
update_selection(e, index) ==
    LET select(mouse_position) ==
            IF selection_is_valid(e) /\ mouse_position = Unwrap(selection_end(e)) THEN e
            ELSE move_cursor(set_end(e, mouse_position), mouse_position)
    IN select(get_valid_cursor_position(e, index))

\* The loop of load_txt_file that drops the empty lines at the end of a file.
RECURSIVE PopEmptyLines(_)
PopEmptyLines(lines) ==
    IF Len(lines) - 1 > 0 /\ lines[Len(lines)].buffer = <<>>
    THEN PopEmptyLines(SubSeq(lines, 1, Len(lines) - 1))
    ELSE lines

\* Editor::load_txt_file, the content of the file given as the sequence of its
\* lines (split on the line feed), each a sequence of characters.  The LoadFile
\* event it sends last only sets the title of the window.
load_txt_file(e, content) ==
    LET pushed == [i \in 1 .. Len(content) + 1 |->
                      IF i <= Len(content) THEN line_add_text(NewLine, content[i]) ELSE NewLine]
    IN update_text_layout(move_to(selection_reset([e EXCEPT !.lines = PopEmptyLines(pushed),
                                                            !.underline_buffer = <<>>,
                                                            !.bold_buffer = <<>>]),
                                  0, 0))

(***************************************************************************)
(* range.rs, editor.rs: the .drn file.  The content of a file is a String, *)
(* kept as the sequence of its characters, line feeds included.            *)
(***************************************************************************)
LineFeed == "\n"

\* str::split on a one-character separator: the pieces between the
\* separators, the empty ones included.
RECURSIVE Split(_, _)
Split(s, sep) ==
    IF \A i \in 1 .. Len(s) : s[i] # sep THEN <<s>>
    ELSE LET i == CHOOSE k \in 1 .. Len(s) :
                      s[k] = sep /\ \A j \in 1 .. k - 1 : s[j] # sep
         IN <<SubSeq(s, 1, i - 1)>> \o Split(SubSeq(s, i + 1, Len(s)), sep)

\* str::starts_with.
starts_with(s, pattern) == Len(s) >= Len(pattern) /\ SubSeq(s, 1, Len(pattern)) = pattern

WhiteSpace == {" ", "\t", "\n", "\r"}

\* str::trim.
RECURSIVE trim(_)
trim(s) ==
    IF s = <<>> THEN s
    ELSE IF s[1] \in WhiteSpace THEN trim(Tail(s))
    ELSE IF s[Len(s)] \in WhiteSpace THEN trim(SubSeq(s, 1, Len(s) - 1))
    ELSE s

DecimalDigits == <<"0", "1", "2", "3", "4", "5", "6", "7", "8", "9">>

IsDigit(c) == \E d \in 1 .. 10 : DecimalDigits[d] = c

DigitValue(c) == (CHOOSE d \in 1 .. 10 : DecimalDigits[d] = c) - 1

\* The decimal text of n >= 0.
RECURSIVE Decimal(_)
Decimal(n) == IF n < 10 THEN <<DecimalDigits[n + 1]>>
              ELSE Decimal(n \div 10) \o <<DecimalDigits[(n % 10) + 1]>>

\* u32::to_string.  A value of 2^31 or more is kept as its i32 bit pattern n < 0
\* and stands for n + 2^32 = a + 2147483648 with a = n + 2^31.
to_string(n) ==
    IF n >= 0 THEN Decimal(n)
    ELSE LET a == (n + 2147483647) + 1
             low == (a % 10) + 8
         IN Decimal((a \div 10) + 214748364 + (low \div 10)) \o <<DecimalDigits[(low % 10) + 1]>>

\* The value of a run of at most 9 digits.
RECURSIVE DecimalValue(_)
DecimalValue(s) ==
    IF s = <<>> THEN 0
    ELSE DecimalValue(SubSeq(s, 1, Len(s) - 1)) * 10 + DigitValue(s[Len(s)])

RECURSIVE StripZeros(_)
StripZeros(s) == IF Len(s) > 1 /\ s[1] = "0" THEN StripZeros(Tail(s)) ELSE s

\* str::parse::<u32>: [ok, v].  An optional "+", then one digit or more, the
\* value at most u32::MAX = 4294967295 (429496729 tens and 5); a value of 2^31
\* or more is returned as its i32 bit pattern.
parse_u32(s) ==
    LET digits == IF s # <<>> /\ s[1] = "+" THEN Tail(s) ELSE s
        Err == [ok |-> FALSE, v |-> 0]
        wide(tens, unit) ==
            IF tens > 429496729 \/ (tens = 429496729 /\ unit > 5) THEN Err
            ELSE IF tens < 214748364 \/ (tens = 214748364 /\ unit <= 7)
            THEN [ok |-> TRUE, v |-> tens * 10 + unit]
            ELSE [ok |-> TRUE, v |-> (tens - 429496728) * 10 + (unit - 16)]
        value(d) ==
            IF Len(d) > 10 THEN Err
            ELSE IF Len(d) = 10 THEN wide(DecimalValue(SubSeq(d, 1, 9)), DigitValue(d[10]))
            ELSE [ok |-> TRUE, v |-> DecimalValue(d)]
    IN IF digits = <<>> \/ \E i \in 1 .. Len(digits) : ~IsDigit(digits[i]) THEN Err
       ELSE value(StripZeros(digits))

InvalidRangeText ==
    <<"I", "n", "v", "a", "l", "i", "d", " ", "r", "a", "n", "g", "e">>

\* Range::get_id: "{start.x}-{start.y}-{end.x}-{end.y}".
get_id(r) ==
    IF ~is_valid(r) THEN InvalidRangeText
    ELSE to_string(Unwrap(r.start).x) \o <<"-">> \o to_string(Unwrap(r.start).y) \o <<"-">>
         \o to_string(Unwrap(r.end).x) \o <<"-">> \o to_string(Unwrap(r.end).y)

\* The loop of get_ranges_from_drn_line over the pieces of the line, from piece
\* i on: [ok, ranges].  ok is FALSE when coords[1], [2] or [3] is read from
\* fewer numbers.
RECURSIVE RangesOfPieces(_, _, _, _)
RangesOfPieces(pieces, line, i, result) ==
    IF i > Len(pieces) \/ pieces[i] = line THEN [ok |-> TRUE, ranges |-> result]
    ELSE LET numbers == Split(trim(pieces[i]), "-")
             parsed_number == [k \in 1 .. Len(numbers) |-> parse_u32(numbers[k])]
             coords == [k \in 1 .. Len(numbers) |-> parsed_number[k].v]
         IN IF \E k \in 1 .. Len(numbers) : ~parsed_number[k].ok
            THEN RangesOfPieces(pieces, line, i + 1, result)
            ELSE IF Len(coords) < 4 THEN [ok |-> FALSE, ranges |-> result]
            ELSE RangesOfPieces(pieces, line, i + 1,
                                Append(result, NewRange(Pos(coords[1], coords[2]),
                                                        Pos(coords[3], coords[4]))))

\* Range::get_ranges_from_drn_line: [ok, ranges], from the first line that
\* starts with the pattern, or from " " when there is none.
get_ranges_from_drn_line(pattern, lines) ==
    LET found == {i \in 1 .. Len(lines) : starts_with(lines[i], pattern)}
        first == IF found = {} THEN <<" ">>
                 ELSE lines[CHOOSE i \in found : \A j \in found : i <= j]
        line == Replace(first, pattern, <<>>)
    IN RangesOfPieces(Split(line, ","), line, 1, <<>>)

\* The ids of a style buffer as save_to_drn_file writes them: each followed by
\* a comma; the filter compares the id with its comma to "Invalid range".
RECURSIVE EncodeRanges(_)
EncodeRanges(buffer) ==
    IF buffer = <<>> THEN <<>>
    ELSE LET id == get_id(Head(buffer)) \o <<",">>
         IN (IF id # InvalidRangeText THEN id ELSE <<>>) \o EncodeRanges(Tail(buffer))

\* The text of the rows from row i on, a line feed between two rows.
\* buffer.join("") strings the characters of a row together.
RECURSIVE EncodeLines(_, _)
EncodeLines(lines, i) ==
    IF i > Len(lines) THEN <<>>
    ELSE lines[i].buffer \o (IF i # Len(lines) THEN <<LineFeed>> ELSE <<>>)
         \o EncodeLines(lines, i + 1)

\* Editor::save_to_drn_file: the String given to fs::write.  The LoadFile and
\* SetDirty events sent afterwards only set the title of the window.
save_to_drn_file(e) ==
    <<"#", "u", ":", " ">> \o EncodeRanges(e.underline_buffer) \o <<LineFeed>>
    \o <<"#", "b", ":", " ">> \o EncodeRanges(e.bold_buffer) \o <<LineFeed>>
    \o EncodeLines(e.lines, 1)

\* Editor::load_drn_file on a file of the given content.  content_lines[2..]
\* panics on fewer than two lines.
load_drn_file(e, file_content) ==
    LET content_lines == Split(file_content, LineFeed)
        underline_ranges == get_ranges_from_drn_line(<<"#", "u", ":">>, content_lines)
        bold_ranges == get_ranges_from_drn_line(<<"#", "b", ":">>, content_lines)
        text == SubSeq(content_lines, 3, Len(content_lines))
        pushed == [i \in 1 .. Len(text) + 1 |->
                      IF i <= Len(text) THEN line_add_text(NewLine, text[i]) ELSE NewLine]
    IN IF ~underline_ranges.ok \/ ~bold_ranges.ok \/ Len(content_lines) < 2
       THEN Panic(selection_reset([e EXCEPT !.lines = <<NewLine>>]))
       ELSE update_text_layout(move_to(selection_reset(
                [e EXCEPT !.lines = PopEmptyLines(pushed),
                          !.underline_buffer = underline_ranges.ranges,
                          !.bold_buffer = bold_ranges.ranges]), 0, 0))

(***************************************************************************)
(* contextual_menu.rs, main.rs: the callbacks of the window handler        *)
(***************************************************************************)
\* ContextualMenu::handle_key for the menus of the model: "Chip" has the one
\* item CancelChip; "AI" has two items, none with a submenu, and the keys that
\* go down its items or select one are not among those delivered to it.
menu_handle_key(e, keycode) ==
    CASE keycode \in {"Up", "Down"} -> e
      [] keycode = "Right" -> menu_close(e)
      [] keycode = "Left" -> unfocus(e)
      [] keycode = "Return" -> menu_close(send_event(e, "CancelChip"))
      [] keycode = "Escape" -> send_event(e, "CloseMenu")
      [] OTHER -> menu_close(e)

\* EditorWindowHandler::on_key_down.
on_key_down(e, keycode) ==
    IF e.focus = "Menu" THEN menu_handle_key(e, keycode) ELSE handle_key(e, keycode)

\* EditorWindowHandler::on_keyboard_char for a printable character.
on_keyboard_char(e, c) ==
    LET layout(e1) == IF e1.crashed THEN e1 ELSE update_text_layout(e1)
    IN IF e.focus = "Editor" \/ e.menu = "Chip" THEN layout(add_char(e, c)) ELSE e

\* EditorWindowHandler::on_keyboard_modifiers_changed.
on_keyboard_modifiers_changed(e, state) == [e EXCEPT !.modifiers = state]

\* EditorWindowHandler::on_mouse_move.
on_mouse_move(e, position) ==
    LET margin(size) == [e EXCEPT !.mouse_position = position,
                                  !.camera.safe_zone_size = IF e.tracked THEN size ELSE @]
    IN IF e.mouse_pressed \/ e.modifiers.shift THEN update_selection(margin(5), position)
       ELSE margin(30)

\* EditorWindowHandler::on_mouse_button_down for the left button.
on_mouse_button_down(e) ==
    LET begin(e2) == IF e2.crashed THEN e2 ELSE begin_selection(e2)
        press(e1) == begin(move_cursor(e1, get_valid_cursor_position(e1, e1.mouse_position)))
    IN press(selection_reset([e EXCEPT !.mouse_pressed = TRUE]))

\* EditorWindowHandler::on_mouse_button_up for the left button.
on_mouse_button_up(e) == [e EXCEPT !.mouse_pressed = FALSE]

\* EditorWindowHandler::on_user_event for the events of the model.
on_user_event(e, user_event) ==
    CASE user_event = "FocusMenu" -> [e EXCEPT !.focus = "Menu"]
      [] user_event = "FocusEditor" -> [e EXCEPT !.focus = "Editor"]
      [] user_event = "CancelChip" -> cancel_chip(e)
      [] user_event = "CloseMenu" -> menu_close(e)
      [] user_event = "Underline" -> underline(e)
      [] user_event = "Bold" -> bold(e)

\* A sweep that advances the tween and keeps it in its slot once ended.
sweep_keeping(slot, dt) ==
    LET ticked(a) == animation_update(IF ~a.has_started THEN animation_start(a) ELSE a, dt)
    IN IF IsSome(slot) THEN Some(ticked(Unwrap(slot))) ELSE None

\* The body of the loop of Editor::update for one slot.
sweep(slot, dt) ==
    LET ticked(a) == animation_update(IF ~a.has_started THEN animation_start(a) ELSE a, dt)
        kept(a) == IF a.is_ended THEN None ELSE Some(a)
    IN IF IsSome(slot) THEN kept(ticked(Unwrap(slot))) ELSE None

\* Editor::update over the slots of Editor::get_animations (those of the
\* contextual menu left out).
editor_update(e, dt) ==
    [e EXCEPT !.cursor_animation = [x |-> sweep(@.x, dt), y |-> sweep(@.y, dt)],
              !.camera.animation = [x |-> sweep(@.x, dt), y |-> sweep(@.y, dt)],
              !.start_animation = [x |-> sweep(@.x, dt), y |-> sweep(@.y, dt)],
              !.end_animation = [x |-> sweep(@.x, dt), y |-> sweep(@.y, dt)]]

(***************************************************************************)
(* The inputs                                                              *)
(***************************************************************************)
\* A line of a file as a sequence of characters.
L2(a, b) == <<a, b>>
L3(a, b, c) == <<a, b, c>>

\* The content of the files the user opens.
Files ==
    { <<L2("a", "b"), <<>>, L2("c", "d")>>,
      <<<<"a">>, L2("c", "d")>>,
      <<<<"<">>, L2("-", "-")>>,
      <<<<"h", "e", "l", "l", "o", " ", "w", "o", "r", "l", "d">>>>,
      <<L3("-", "a", "b"), <<" ", "-", "c", "d">>>> }

Keys == {"Right", "Left", "Up", "Down", "Backspace", "Delete", "Return", "Escape"}

Chars == {"a", "-", "(", "\"", "l", "D", "x"}

ModifierStates == [shift : BOOLEAN, alt : BOOLEAN, logo : BOOLEAN, ctrl : BOOLEAN]

MousePositions == {Pos(x, y) : x \in {0, 1, 3, 11}, y \in {0, 1}}

(***************************************************************************)
(* The state machine: one action per callback, from the editor that main() *)
(* builds when it is started without a file.  `pre` is the editor before   *)
(* the last callback, `mid` the editor when the Editable operation that    *)
(* the callback runs has returned (before the callback's own               *)
(* update_text_layout), `ev` the callback and its key or character.        *)
(***************************************************************************)
\* No function of range.rs is being called on its own.
NoCall == [fn |-> "", self |-> EmptyRange, other |-> EmptyRange, lines |-> <<>>, ret |-> <<>>]

\* No animation is being driven on its own.
NoTween ==
    [animation |-> NewAnimation(0, 0, 100, "Linear"), called |-> "", delta_time |-> 0,
     t |-> 0, eased |-> [num |-> 0, den |-> 1], fed |-> 0]

Init ==
    /\ ed = NewEditor
    /\ pre = ed
    /\ mid = ed
    /\ ev = [type |-> "Init", key |-> ""]
    /\ steps = 0
    /\ call = NoCall
    /\ tween = NoTween
    /\ twin = ed

\* The event loop delivers the user events a callback has sent before the
\* next input; nothing runs after a panic.
InputReady == ~ed.crashed /\ ed.queue = <<>> /\ steps < MaxSteps

Record(type, key, m, e) ==
    /\ pre' = ed
    /\ mid' = m
    /\ ed' = e
    /\ ev' = [type |-> type, key |-> key]
    /\ UNCHANGED <<call, tween, twin>>

OnKeyDown ==
    /\ InputReady
    /\ \E keycode \in Keys :
         /\ ed.focus = "Menu" /\ ed.menu = "AI" => keycode \notin {"Up", "Down", "Return"}
         /\ Record("Key", keycode,
                   IF ed.focus = "Menu" THEN menu_handle_key(ed, keycode)
                   ELSE KeyOperation(ed, keycode),
                   on_key_down(ed, keycode))
    /\ steps' = steps + 1

OnKeyboardChar ==
    /\ InputReady
    /\ \E c \in Chars :
         Record("Char", c,
                IF ed.focus = "Editor" \/ ed.menu = "Chip" THEN add_char(ed, c) ELSE ed,
                on_keyboard_char(ed, c))
    /\ steps' = steps + 1

OnKeyboardModifiersChanged ==
    /\ InputReady
    /\ \E state \in ModifierStates :
         /\ state # ed.modifiers
         /\ Record("Modifiers", "", on_keyboard_modifiers_changed(ed, state),
                   on_keyboard_modifiers_changed(ed, state))
    /\ steps' = steps + 1

OnMouseMove ==
    /\ InputReady
    /\ \E position \in MousePositions :
         /\ position # ed.mouse_position
         /\ Record("MouseMove", "", on_mouse_move(ed, position), on_mouse_move(ed, position))
    /\ steps' = steps + 1

OnMouseButtonDown ==
    /\ InputReady
    /\ ~ed.mouse_pressed
    /\ Record("MouseDown", "", on_mouse_button_down(ed), on_mouse_button_down(ed))
    /\ steps' = steps + 1

OnMouseButtonUp ==
    /\ InputReady
    /\ ed.mouse_pressed
    /\ Record("MouseUp", "", on_mouse_button_up(ed), on_mouse_button_up(ed))
    /\ steps' = steps + 1

\* on_user_event(MenuItemSelected(Open(path))): the user picks a file in the
\* Open menu.  A session opens at most one file, before any other input.
OnOpenFile ==
    /\ InputReady
    /\ ev.type = "Init"
    /\ \E content \in Files :
         Record("OpenFile", "", load_txt_file(ed, content), load_txt_file(ed, content))
    /\ UNCHANGED steps

OnUserEvent ==
    /\ ~ed.crashed
    /\ ed.queue # <<>>
    /\ LET e == [ed EXCEPT !.queue = Tail(@)]
       IN Record("UserEvent", Head(ed.queue), on_user_event(e, Head(ed.queue)),
                 on_user_event(e, Head(ed.queue)))
    /\ UNCHANGED steps

Next ==
    \/ OnOpenFile
    \/ OnKeyDown
    \/ OnKeyboardChar
    \/ OnKeyboardModifiersChanged
    \/ OnMouseMove
    \/ OnMouseButtonDown
    \/ OnMouseButtonUp
    \/ OnUserEvent

Spec == Init /\ [][Next]_vars

(***************************************************************************)
(* The same editor driven by the arrow keys and the modifier keys only,    *)
(* for longer sessions: the operations on the cursor and the selection.    *)
(***************************************************************************)
MaxMotionSteps == 5

ArrowKeys == {"Right", "Left", "Up", "Down"}

MotionReady == ~ed.crashed /\ ed.queue = <<>> /\ steps < MaxMotionSteps

OnArrowKeyDown ==
    /\ MotionReady
    /\ \E keycode \in ArrowKeys :
         Record("Key", keycode, KeyOperation(ed, keycode), on_key_down(ed, keycode))
    /\ steps' = steps + 1

OnArrowModifiersChanged ==
    /\ MotionReady
    /\ \E state \in ModifierStates :
         /\ state # ed.modifiers
         /\ Record("Modifiers", "", on_keyboard_modifiers_changed(ed, state),
                   on_keyboard_modifiers_changed(ed, state))
    /\ steps' = steps + 1

NextMotion ==
    \/ OnOpenFile
    \/ OnArrowKeyDown
    \/ OnArrowModifiersChanged

SpecMotion == Init /\ [][NextMotion]_vars

(***************************************************************************)
(* The same editor driven by the mouse and the Underline and Bold items of *)
(* the contextual menu, on a small file: the style buffers.                *)
(***************************************************************************)
\* A style item is picked while the buffers hold fewer entries than this.
MaxStyleEntries == 3

StyleFiles == { <<<<"a">>, <<"b">>>> }

StyleMousePositions == {Pos(x, y) : x \in {0, 1}, y \in {0, 1}}

StyleItems == {"Underline", "Bold"}

StyleReady == ~ed.crashed /\ ed.queue = <<>>

OnOpenStyleFile ==
    /\ StyleReady
    /\ ev.type = "Init"
    /\ \E content \in StyleFiles :
         Record("OpenFile", "", load_txt_file(ed, content), load_txt_file(ed, content))
    /\ UNCHANGED steps

OnStyleMouseMove ==
    /\ StyleReady
    /\ \E position \in StyleMousePositions :
         /\ position # ed.mouse_position
         /\ Record("MouseMove", "", on_mouse_move(ed, position), on_mouse_move(ed, position))
    /\ UNCHANGED steps

OnStyleMouseButtonDown ==
    /\ StyleReady
    /\ ~ed.mouse_pressed
    /\ Record("MouseDown", "", on_mouse_button_down(ed), on_mouse_button_down(ed))
    /\ UNCHANGED steps

OnStyleMouseButtonUp ==
    /\ StyleReady
    /\ ed.mouse_pressed
    /\ Record("MouseUp", "", on_mouse_button_up(ed), on_mouse_button_up(ed))
    /\ UNCHANGED steps

\* on_user_event(MenuItemSelected(Underline)) and (MenuItemSelected(Bold)): the
\* user picks the item in the contextual menu.
OnStyleMenuItem ==
    /\ StyleReady
    /\ Len(ed.underline_buffer) + Len(ed.bold_buffer) < MaxStyleEntries
    /\ \E item \in StyleItems :
         Record("UserEvent", item, on_user_event(ed, item), on_user_event(ed, item))
    /\ UNCHANGED steps

NextStyle ==
    \/ OnOpenStyleFile
    \/ OnStyleMouseMove
    \/ OnStyleMouseButtonDown
    \/ OnStyleMouseButtonUp
    \/ OnStyleMenuItem

SpecStyle == Init /\ [][NextStyle]_vars

(***************************************************************************)
(* The functions of range.rs called on their own.  `call` holds a receiver *)
(* (self), an argument (other) and the lines of a document, drawn from     *)
(* small sets, the function that was applied to them last and what it      *)
(* returned; for Range::add, which changes its receiver, the receiver      *)
(* after the call.                                                         *)
(***************************************************************************)
\* A row of n characters.
RowOf(n) == line_add_text(NewLine, [i \in 1 .. n |-> "a"])

\* Three rows of 10, 10 and 4 characters, and a single row of 10 characters.
RangeDocuments == { <<RowOf(10), RowOf(10), RowOf(4)>>, <<RowOf(10)>> }

RangePositions == {Pos(x, y) : x \in {2, 3, 5}, y \in {0, 1, 2}}

\* The values of an endpoint: Option<Vector2<u32>>.
RangeEndpoints == {None} \cup {Some(p) : p \in RangePositions}

Ranges == [start : RangeEndpoints, end : RangeEndpoints]

InitRange ==
    /\ ed = NewEditor
    /\ pre = ed
    /\ mid = ed
    /\ ev = [type |-> "Init", key |-> ""]
    /\ steps = 0
    /\ \E self \in Ranges, other \in Ranges, lines \in RangeDocuments :
         call = [fn |-> "", self |-> self, other |-> other, lines |-> lines, ret |-> <<>>]
    /\ tween = NoTween
    /\ twin = ed

Returned(fn, ret) ==
    /\ call.fn # fn
    /\ call' = [call EXCEPT !.fn = fn, !.ret = ret]
    /\ UNCHANGED <<ed, pre, mid, ev, steps, tween, twin>>

CallIsValid == Returned("is_valid", is_valid(call.self))

CallGetRealStart == Returned("get_real_start", get_real_start(call.self))

CallGetRealEnd == Returned("get_real_end", get_real_end(call.self))

CallGetLinesIndex == Returned("get_lines_index", get_lines_index(call.self, call.lines))

CallAdd == Returned("add", range_add(call.self, call.other))

CallInclude == Returned("include", include(call.self, call.other))

NextRange ==
    \/ CallIsValid
    \/ CallGetRealStart
    \/ CallGetRealEnd
    \/ CallGetLinesIndex
    \/ CallAdd
    \/ CallInclude

SpecRange == InitRange /\ [][NextRange]_vars

(***************************************************************************)
(* The tween on its own: an animation built by Animation::new from values  *)
(* of small sets and the calls made on it.  `tween` holds the animation,   *)
(* the function called last with its delta_time, the progress t at which   *)
(* the easing closure was applied last and what it returned, and `fed`,    *)
(* the sum of the delta_time of the update calls made since the last start *)
(* while the animation was started and not paused.                         *)
(***************************************************************************)
\* Upper bound of `fed`, in milliseconds.
MaxFed == 100

TweenEnds == {0, 60}

TweenDurations == {50, 100}

TweenDeltas == {0, 25, 50}

InitTween ==
    /\ ed = NewEditor
    /\ pre = ed
    /\ mid = ed
    /\ ev = [type |-> "Init", key |-> ""]
    /\ steps = 0
    /\ call = NoCall
    /\ \E from \in TweenEnds, to \in TweenEnds, duration \in TweenDurations,
          easing \in EasingFunctions :
         tween = [NoTween EXCEPT !.animation = NewAnimation(from, to, duration, easing),
                                 !.called = "new"]
    /\ twin = ed

Called(fn, a, fed) ==
    /\ tween' = [tween EXCEPT !.animation = a, !.called = fn, !.fed = fed]
    /\ UNCHANGED <<ed, pre, mid, ev, steps, call, twin>>

TweenStart == Called("start", animation_start(tween.animation), 0)

TweenReset == Called("reset", animation_reset(tween.animation), 0)

TweenPause == Called("pause", animation_pause(tween.animation), tween.fed)

TweenResume == Called("resume", animation_resume(tween.animation), tween.fed)

TweenToggle == Called("toggle", animation_toggle(tween.animation), tween.fed)

TweenUpdate ==
    \E delta_time \in TweenDeltas :
      LET a == tween.animation
          fed == IF a.has_started /\ ~a.is_paused THEN tween.fed + delta_time ELSE tween.fed
      IN /\ fed <= MaxFed
         /\ tween' = [tween EXCEPT !.animation = animation_update(a, delta_time),
                                   !.called = "update",
                                   !.delta_time = delta_time,
                                   !.fed = fed]
         /\ UNCHANGED <<ed, pre, mid, ev, steps, call, twin>>

\* (self.easing_fn)(t) for a progress t of 0 .. 1.
TweenEasing ==
    \E t \in 0 .. TUnit :
      /\ tween' = [tween EXCEPT !.called = "easing_fn",
                                !.t = t,
                                !.eased = get_easing_fn(tween.animation.easing, t)]
      /\ UNCHANGED <<ed, pre, mid, ev, steps, call, twin>>

NextTween ==
    \/ TweenStart
    \/ TweenReset
    \/ TweenPause
    \/ TweenResume
    \/ TweenToggle
    \/ TweenUpdate
    \/ TweenEasing

SpecTween == InitTween /\ [][NextTween]_vars

(***************************************************************************)
(* The editor with its rendering state followed: the keyboard callbacks    *)
(* and the ticks of the timer thread (on_user_event(Update)), on a file    *)
(* longer than the window.  `twin` is the editor that has received the     *)
(* same keyboard callbacks as `ed` and no tick.                            *)
(***************************************************************************)
\* Number of key presses and characters delivered to the window.
MaxViewSteps == 3

\* The rows of the file: more than the 725 pixels of the camera hold.
ViewRows == 36

ViewFile == [i \in 1 .. ViewRows |-> <<"a">>]

ViewKeys == {"Up", "Down", "Backspace", "Return"}

ViewChars == {"a"}

ViewModifierStates ==
    {NoModifiers, [NoModifiers EXCEPT !.logo = TRUE], [NoModifiers EXCEPT !.shift = TRUE]}

\* tick_timestamp.elapsed().as_millis() at a tick, in milliseconds.
ViewDeltas == {50, 100}

InitView ==
    /\ ed = [NewEditor EXCEPT !.tracked = TRUE]
    /\ pre = ed
    /\ mid = ed
    /\ ev = [type |-> "Init", key |-> ""]
    /\ steps = 0
    /\ call = NoCall
    /\ tween = NoTween
    /\ twin = ed

ViewReady == ~ed.crashed /\ ed.queue = <<>> /\ ev.type # "Init" /\ steps < MaxViewSteps

RecordView(type, key, m, e, t) ==
    /\ pre' = ed
    /\ mid' = returned_editor(m)
    /\ ed' = returned_editor(e)
    /\ ev' = [type |-> type, key |-> key]
    /\ twin' = returned_editor(t)
    /\ UNCHANGED <<call, tween>>

OnViewOpenFile ==
    /\ ev.type = "Init"
    /\ RecordView("OpenFile", "", load_txt_file(ed, ViewFile), load_txt_file(ed, ViewFile),
                  load_txt_file(twin, ViewFile))
    /\ UNCHANGED steps

OnViewKeyDown ==
    /\ ViewReady
    /\ \E keycode \in ViewKeys :
         RecordView("Key", keycode, KeyOperation(ed, keycode), on_key_down(ed, keycode),
                    on_key_down(twin, keycode))
    /\ steps' = steps + 1

\* The characters are typed with Cmd released: Cmd+A, which selects the whole
\* file, is followed on the small files of Spec.
OnViewKeyboardChar ==
    /\ ViewReady
    /\ ~ed.modifiers.logo
    /\ \E c \in ViewChars :
         RecordView("Char", c, add_char(ed, c), on_keyboard_char(ed, c),
                    on_keyboard_char(twin, c))
    /\ steps' = steps + 1

OnViewModifiersChanged ==
    /\ ViewReady
    /\ \E state \in ViewModifierStates :
         /\ state # ed.modifiers
         /\ RecordView("Modifiers", "", on_keyboard_modifiers_changed(ed, state),
                       on_keyboard_modifiers_changed(ed, state),
                       on_keyboard_modifiers_changed(twin, state))
    /\ UNCHANGED steps

\* on_user_event(EditorEvent::Update): the tick.
OnTick ==
    /\ ~ed.crashed
    /\ ev.type # "Init"
    /\ \E dt \in ViewDeltas :
         RecordView("Tick", "", editor_update(ed, dt), editor_update(ed, dt), twin)
    /\ UNCHANGED steps

NextView ==
    \/ OnViewOpenFile
    \/ OnViewKeyDown
    \/ OnViewKeyboardChar
    \/ OnViewModifiersChanged
    \/ OnTick

SpecView == InitView /\ [][NextView]_vars

\* The timer thread sends an Update every FRAME_DURATION for as long as the
\* program runs (main.rs:78-83), and the event loop delivers it.
SpecViewTicking == SpecView /\ WF_vars(OnTick)

(***************************************************************************)
(* The editor of main() with its rendering state followed, driven by the   *)
(* mouse, the arrow keys and the Shift key on a small file, with no tick   *)
(* delivered: the camera does not scroll, so the cell under the pointer is *)
(* the same for the whole session.                                         *)
(***************************************************************************)
MaxDragSteps == 4

DragFile == <<L2("a", "b"), L2("c", "d")>>

DragKeys == {"Right", "Left", "Down"}

DragModifierStates == {NoModifiers, [NoModifiers EXCEPT !.shift = TRUE]}

DragPositions == {Pos(0, 0), Pos(1, 0), Pos(2, 1)}

DragReady == ~ed.crashed /\ ed.queue = <<>> /\ ev.type # "Init" /\ steps < MaxDragSteps

OnDragOpenFile ==
    /\ ev.type = "Init"
    /\ RecordView("OpenFile", "", load_txt_file(ed, DragFile), load_txt_file(ed, DragFile),
                  twin)
    /\ UNCHANGED steps

OnDragKeyDown ==
    /\ DragReady
    /\ \E keycode \in DragKeys :
         RecordView("Key", keycode, KeyOperation(ed, keycode), on_key_down(ed, keycode),
                    twin)
    /\ steps' = steps + 1

OnDragModifiersChanged ==
    /\ DragReady
    /\ \E state \in DragModifierStates :
         /\ state # ed.modifiers
         /\ RecordView("Modifiers", "", on_keyboard_modifiers_changed(ed, state),
                       on_keyboard_modifiers_changed(ed, state), twin)
    /\ steps' = steps + 1

OnDragMouseMove ==
    /\ DragReady
    /\ \E position \in DragPositions :
         /\ position # ed.mouse_position
         /\ RecordView("MouseMove", "", on_mouse_move(ed, position),
                       on_mouse_move(ed, position), twin)
    /\ steps' = steps + 1

OnDragMouseButtonDown ==
    /\ DragReady
    /\ ~ed.mouse_pressed
    /\ RecordView("MouseDown", "", on_mouse_button_down(ed), on_mouse_button_down(ed), twin)
    /\ steps' = steps + 1

OnDragMouseButtonUp ==
    /\ DragReady
    /\ ed.mouse_pressed
    /\ RecordView("MouseUp", "", on_mouse_button_up(ed), on_mouse_button_up(ed), twin)
    /\ steps' = steps + 1

NextDrag ==
    \/ OnDragOpenFile
    \/ OnDragKeyDown
    \/ OnDragModifiersChanged
    \/ OnDragMouseMove
    \/ OnDragMouseButtonDown
    \/ OnDragMouseButtonUp

SpecDrag == InitView /\ [][NextDrag]_vars

(***************************************************************************)
(* The editor of main() driven by the mouse and the Backspace key: a       *)
(* selection is dragged over a small file and deleted.                     *)
(***************************************************************************)
\* Number of mouse events and key presses delivered to the window.
MaxEraseSteps == 5

EraseFiles ==
    { <<L2("a", "b"), <<>>, L2("c", "d")>>,
      <<<<"a">>, L2("c", "d")>> }

\* The cells of the character grid the pointer is moved over.
ErasePositions == {Pos(x, y) : x \in {0, 1, 3}, y \in {0, 1, 2}}

EraseReady == ~ed.crashed /\ ed.queue = <<>> /\ ev.type # "Init" /\ steps < MaxEraseSteps

OnEraseOpenFile ==
    /\ ev.type = "Init"
    /\ \E content \in EraseFiles :
         Record("OpenFile", "", load_txt_file(ed, content), load_txt_file(ed, content))
    /\ UNCHANGED steps

OnEraseMouseMove ==
    /\ EraseReady
    /\ \E position \in ErasePositions :
         /\ position # ed.mouse_position
         /\ Record("MouseMove", "", on_mouse_move(ed, position), on_mouse_move(ed, position))
    /\ steps' = steps + 1

OnEraseMouseButtonDown ==
    /\ EraseReady
    /\ ~ed.mouse_pressed
    /\ Record("MouseDown", "", on_mouse_button_down(ed), on_mouse_button_down(ed))
    /\ steps' = steps + 1

OnEraseMouseButtonUp ==
    /\ EraseReady
    /\ ed.mouse_pressed
    /\ Record("MouseUp", "", on_mouse_button_up(ed), on_mouse_button_up(ed))
    /\ steps' = steps + 1

OnEraseKeyDown ==
    /\ EraseReady
    /\ Record("Key", "Backspace", KeyOperation(ed, "Backspace"), on_key_down(ed, "Backspace"))
    /\ steps' = steps + 1

NextErase ==
    \/ OnEraseOpenFile
    \/ OnEraseMouseMove
    \/ OnEraseMouseButtonDown
    \/ OnEraseMouseButtonUp
    \/ OnEraseKeyDown

SpecErase == Init /\ [][NextErase]_vars

(***************************************************************************)
(* The .drn files: the user opens a .drn file, edits and styles the        *)
(* document, saves it to a .drn file and opens that file again.            *)
(* `call.ret` holds the content given to fs::write by the last save.       *)
(***************************************************************************)
\* Number of inputs delivered to the window between the files.
MaxFileSteps == 4

HeaderU == <<"#", "u", ":", " ">>

HeaderB == <<"#", "b", ":", " ">>

\* The content of a file from its lines.
RECURSIVE FileOf(_)
FileOf(file_lines) ==
    IF Len(file_lines) = 1 THEN file_lines[1]
    ELSE file_lines[1] \o <<LineFeed>> \o FileOf(Tail(file_lines))

\* The .drn files on the disk, by name.
DrnFile(name) ==
    CASE name = "plain" -> FileOf(<<HeaderU, HeaderB, <<"a", "b">>, <<"c", "d">>>>)
      [] name = "styled" ->
           FileOf(<<HeaderU \o <<"0", "-", "0", "-", "1", "-", "0", ",">>,
                    HeaderB \o <<"1", "-", "1", "-", "0", "-", "1", ",">>,
                    <<"a", "b">>, <<"c", "d">>>>)
      [] name = "header-only" -> FileOf(<<HeaderU, HeaderB>>)
      [] name = "empty" -> <<>>
      [] name = "one-line" -> <<"a", "b">>
      [] name = "no-header" -> FileOf(<<<<"a", "b">>, <<"c", "d">>, <<"e", "f">>>>)
      [] name = "non-numeric" ->
           FileOf(<<HeaderU \o <<"x", "-", "0", "-", "1", "-", "0", ",">>, HeaderB, <<"a", "b">>>>)
      [] name = "incomplete" ->
           FileOf(<<HeaderU \o <<"0", "-", "0", "-", "1", ",">>, HeaderB, <<"a", "b">>>>)
      [] name = "no-comma" ->
           FileOf(<<HeaderU \o <<"0", "-", "0", "-", "1", "-", "0">>, HeaderB, <<"a", "b">>>>)

\* The files whose header pair is missing or malformed.
BadHeaderFiles == {"empty", "one-line", "no-header", "non-numeric", "incomplete", "no-comma"}

DrnFileNames == {"plain", "styled", "header-only"} \cup BadHeaderFiles

FilePositions == {Pos(x, y) : x \in {0, 2}, y \in {0, 1}}

FileKeys == {"Return", "Backspace"}

FileReady == ~ed.crashed /\ ed.queue = <<>>

\* on_user_event(MenuItemSelected(Open(path))) for a path that ends with .drn.
OnFileOpen ==
    /\ FileReady
    /\ ev.type = "Init"
    /\ \E name \in DrnFileNames :
         Record("OpenDrn", name, load_drn_file(ed, DrnFile(name)),
                load_drn_file(ed, DrnFile(name)))
    /\ UNCHANGED steps

OnFileMouseMove ==
    /\ FileReady
    /\ steps < MaxFileSteps
    /\ \E position \in FilePositions :
         /\ position # ed.mouse_position
         /\ Record("MouseMove", "", on_mouse_move(ed, position), on_mouse_move(ed, position))
    /\ steps' = steps + 1

OnFileMouseButtonDown ==
    /\ FileReady
    /\ steps < MaxFileSteps
    /\ ~ed.mouse_pressed
    /\ Record("MouseDown", "", on_mouse_button_down(ed), on_mouse_button_down(ed))
    /\ steps' = steps + 1

OnFileMouseButtonUp ==
    /\ FileReady
    /\ steps < MaxFileSteps
    /\ ed.mouse_pressed
    /\ Record("MouseUp", "", on_mouse_button_up(ed), on_mouse_button_up(ed))
    /\ steps' = steps + 1

OnFileKeyDown ==
    /\ FileReady
    /\ steps < MaxFileSteps
    /\ \E keycode \in FileKeys :
         Record("Key", keycode, KeyOperation(ed, keycode), on_key_down(ed, keycode))
    /\ steps' = steps + 1

\* on_user_event(MenuItemSelected(Underline)) and (MenuItemSelected(Bold)).
OnFileMenuItem ==
    /\ FileReady
    /\ steps < MaxFileSteps
    /\ \E item \in StyleItems :
         Record("UserEvent", item, on_user_event(ed, item), on_user_event(ed, item))
    /\ steps' = steps + 1

\* on_user_event(MenuItemSelected(Save(path))) for a path that ends with .drn:
\* save_to_file, which calls save_to_drn_file.
OnFileSave ==
    /\ FileReady
    /\ ev.type \notin {"Init", "Save", "Reopen"}
    /\ pre' = ed
    /\ mid' = ed
    /\ ed' = ed
    /\ ev' = [type |-> "Save", key |-> ""]
    /\ call' = [NoCall EXCEPT !.fn = "fs::write", !.ret = save_to_drn_file(ed)]
    /\ UNCHANGED <<steps, tween, twin>>

\* on_user_event(MenuItemSelected(Open(path))) for the file just saved.
OnFileReopen ==
    /\ FileReady
    /\ ev.type = "Save"
    /\ Record("Reopen", "", load_drn_file(ed, call.ret), load_drn_file(ed, call.ret))
    /\ UNCHANGED steps

NextFile ==
    \/ OnFileOpen
    \/ OnFileMouseMove
    \/ OnFileMouseButtonDown
    \/ OnFileMouseButtonUp
    \/ OnFileKeyDown
    \/ OnFileMenuItem
    \/ OnFileSave
    \/ OnFileReopen

SpecFile == Init /\ [][NextFile]_vars

(***************************************************************************)
(* tesl/lexer.rs, tesl/parser.rs, tesl/compiler.rs.  A LexerItem is        *)
(* [k, s]: its variant and its String as a sequence of characters.  A      *)
(* Token is [t, s, n]: its variant (with the inner variant: "Type::Int",   *)
(* "Operator::Add", ...), the String it carries and the number it carries  *)
(* (the i32 of Value::Int, 1 or 0 for Value::Bool).                        *)
(***************************************************************************)
\* The characters of 'A'..='z' | '0'..='9', the backslash and the
\* backquote left aside.
LiteralChars ==
    {"A", "B", "C", "D", "E", "F", "G", "H", "I", "J", "K", "L", "M", "N", "O", "P", "Q", "R",
     "S", "T", "U", "V", "W", "X", "Y", "Z", "[", "]", "^", "_",
     "a", "b", "c", "d", "e", "f", "g", "h", "i", "j", "k", "l", "m", "n", "o", "p", "q", "r",
     "s", "t", "u", "v", "w", "x", "y", "z",
     "0", "1", "2", "3", "4", "5", "6", "7", "8", "9"}

\* Lexer::new.
NewLexer == [result |-> <<>>, temp |-> <<>>, temp_is_string |-> FALSE, panicked |-> FALSE]

LexerItem(k, s) == [k |-> k, s |-> s]

\* Lexer::flush_temp_even_empty.
flush_temp_even_empty(lexer) ==
    [lexer EXCEPT !.result = Append(@, LexerItem("Literal", lexer.temp)), !.temp = <<>>]

\* Lexer::flush_temp.
flush_temp(lexer) == IF lexer.temp = <<>> THEN lexer ELSE flush_temp_even_empty(lexer)

\* One turn of the loop of Lexer::scan, on the character c.
scan_char(lexer, c) ==
    LET push(l, item) == [l EXCEPT !.result = Append(@, item)]
    IN CASE c \in LiteralChars -> [lexer EXCEPT !.temp = Append(@, c)]
         [] c \in {"(", ")", "{", "}", "."} -> push(flush_temp(lexer), LexerItem("Separator", <<c>>))
         [] c \in {"\"", "'"} ->
              push(IF ~lexer.temp_is_string THEN [lexer EXCEPT !.temp_is_string = TRUE]
                   ELSE [flush_temp_even_empty(lexer) EXCEPT !.temp_is_string = FALSE],
                   LexerItem("Separator", <<c>>))
         [] c \in {"=", "+", "-", "*", "/", "%"} ->
              push(flush_temp(lexer), LexerItem("Operator", <<c>>))
         [] c = " " -> IF lexer.temp_is_string THEN [lexer EXCEPT !.temp = Append(@, c)]
                       ELSE flush_temp(lexer)
         [] c = "\n" -> push(flush_temp(lexer), LexerItem("NewLine", <<>>))
         [] OTHER -> [lexer EXCEPT !.panicked = TRUE]

\* Lexer::scan from character i of the input on: the lexer after the call;
\* what the call returns is its `result`.
RECURSIVE scan(_, _, _)
scan(lexer, input, i) ==
    IF lexer.panicked THEN lexer
    ELSE IF i > Len(input) THEN flush_temp(lexer)
    ELSE scan(scan_char(lexer, input[i]), input, i + 1)

Token(t, s, n) == [t |-> t, s |-> s, n |-> n]

\* Parser::identify.  The operators and separators are those Lexer::scan
\* produces.
identify(item) ==
    LET c == item.s[1]
        word(w) == item.s = w
    IN CASE item.k = "Operator" ->
              Token(CASE c = "+" -> "Operator::Add"
                      [] c = "-" -> "Operator::Substract"
                      [] c = "*" -> "Operator::Mutliply"
                      [] c = "/" -> "Operator::Divide"
                      [] c = "%" -> "Operator::Modulo"
                      [] c = "=" -> "Operator::Equal", <<>>, 0)
         [] item.k = "Separator" ->
              Token(CASE c \in {"\"", "'"} -> "Separator::Quote"
                      [] c = "(" -> "Separator::LParenthesis"
                      [] c = ")" -> "Separator::RParenthesis"
                      [] c = "{" -> "Separator::LCurlyBracket"
                      [] c = "}" -> "Separator::RCurlyBracket"
                      [] c = "." -> "Separator::Dot", <<>>, 0)
         [] item.k = "Literal" ->
              CASE word(<<"i", "n", "t">>) -> Token("Type::Int", <<>>, 0)
                [] word(<<"f", "l", "o", "a", "t">>) -> Token("Type::Float", <<>>, 0)
                [] word(<<"b", "o", "o", "l">>) -> Token("Type::Bool", <<>>, 0)
                [] word(<<"s", "t", "r">>) -> Token("Type::Str", <<>>, 0)
                [] word(<<"i", "f">>) -> Token("Keyword::If", <<>>, 0)
                [] word(<<"e", "l", "s", "e">>) -> Token("Keyword::Else", <<>>, 0)
                [] word(<<"f", "o", "r">>) -> Token("Keyword::For", <<>>, 0)
                [] word(<<"i", "n">>) -> Token("Keyword::In", <<>>, 0)
                [] OTHER -> Token("Identifier", item.s, 0)
         [] item.k = "NewLine" -> Token("NewLine", <<>>, 0)

NoOp == Token("NoOp", <<>>, 0)

\* Parser::is_quote.
is_quote(token) == token.t = "Separator::Quote"

\* Parser::is_numeric.
is_numeric(token) ==
    IF token.t = "Identifier"
    THEN \A i \in 1 .. Len(token.s) : IsDigit(token.s[i]) \/ token.s[i] \in {"-", "."}
    ELSE token.t \in {"Value::Int", "Value::Float"}

\* Parser::is_bool.
is_bool(token) ==
    token.t = "Identifier"
    /\ (token.s = <<"t", "r", "u", "e">> \/ token.s = <<"f", "a", "l", "s", "e">>)

\* The first pass of Parser::tokenize, over the tokens that identify made
\* identifiers, from token i on: [ok, tokens].  ok is FALSE on a panic: the
\* index i - 1 of the first token or i + 1 of the last one, or a number that
\* does not parse as i32.  A Literal of Lexer::scan holds no "." and no "-".
RECURSIVE identifier_pass(_, _, _)
identifier_pass(tokens, identified, i) ==
    LET Failed == [ok |-> FALSE, tokens |-> tokens]
        number == parse_u32(tokens[i].s)
        as_bool(ts) ==
            IF is_bool(ts[i])
            THEN [ts EXCEPT ![i] = Token("Value::Bool", <<>>,
                                         IF ts[i].s = <<"t", "r", "u", "e">> THEN 1 ELSE 0)]
            ELSE ts
        as_number(ts) ==
            IF ~is_numeric(ts[i]) THEN [ok |-> TRUE, tokens |-> as_bool(ts)]
            ELSE IF ts[i].t # "Identifier" THEN [ok |-> TRUE, tokens |-> ts]
            ELSE IF ~number.ok \/ number.v < 0 \/ ts[i].s[1] = "+" THEN Failed
            ELSE [ok |-> TRUE, tokens |-> [ts EXCEPT ![i] = Token("Value::Int", <<>>, number.v)]]
        as_string ==
            IF i = 1 THEN Failed
            ELSE IF ~is_quote(tokens[i - 1]) THEN as_number(tokens)
            ELSE IF i = Len(tokens) THEN Failed
            ELSE IF is_quote(tokens[i + 1])
            THEN as_number([tokens EXCEPT ![i] = Token("Value::Str", tokens[i].s, 0)])
            ELSE as_number(tokens)
        next(r) == IF r.ok THEN identifier_pass(r.tokens, identified, i + 1) ELSE r
    IN IF i > Len(tokens) THEN [ok |-> TRUE, tokens |-> tokens]
       ELSE IF identified[i].t # "Identifier" THEN identifier_pass(tokens, identified, i + 1)
       ELSE next(as_string)

RECURSIVE StripTrailingZeros(_)
StripTrailingZeros(s) ==
    IF Len(s) > 1 /\ s[Len(s)] = "0" THEN StripTrailingZeros(SubSeq(s, 1, Len(s) - 1)) ELSE s

\* Value::Float of format!("{}.{}", decimal_part, float_part): the f32 is kept
\* as its decimal text without the zeros that close it.
float_value(decimal_part, float_part) ==
    Token("Value::Float",
          to_string(decimal_part) \o <<".">> \o StripTrailingZeros(to_string(float_part)), 0)

\* The second pass of Parser::tokenize, from token i on: "..", the floats and
\* "=>".  ok is FALSE when tokens[i + 1] is read after an "=" that is the
\* last token.
RECURSIVE operator_pass(_, _)
operator_pass(tokens, i) ==
    LET token_len == Len(tokens)
        dotdot(ts) ==
            IF i + 1 <= token_len /\ ts[i + 1].t = "Separator::Dot"
            THEN [ts EXCEPT ![i] = Token("Operator::DotDot", <<>>, 0), ![i + 1] = NoOp]
            ELSE ts
        float(ts) ==
            IF i > 1 /\ i + 1 <= token_len /\ is_numeric(ts[i - 1]) /\ is_numeric(ts[i + 1])
               /\ ts[i - 1].t = "Value::Int" /\ ts[i + 1].t = "Value::Int"
            THEN [ts EXCEPT ![i - 1] = NoOp, ![i] = float_value(ts[i - 1].n, ts[i + 1].n),
                            ![i + 1] = NoOp]
            ELSE ts
        dots(ts) == IF ts[i].t = "Separator::Dot" THEN float(dotdot(ts)) ELSE ts
        arrow(ts) ==
            IF ts[i].t # "Operator::Equal" THEN operator_pass(ts, i + 1)
            ELSE IF i + 1 > token_len THEN [ok |-> FALSE, tokens |-> ts]
            ELSE IF ts[i + 1].t = "Separator::RAngleBracket"
            THEN operator_pass([ts EXCEPT ![i] = Token("Operator::Arrow", <<>>, 0),
                                          ![i + 1] = NoOp], i + 1)
            ELSE operator_pass(ts, i + 1)
    IN IF i > token_len THEN [ok |-> TRUE, tokens |-> tokens] ELSE arrow(dots(tokens))

\* Parser::tokenize: [ok, tokens].
tokenize(input) ==
    LET identified == [i \in 1 .. Len(input) |-> identify(input[i])]
        first == identifier_pass(identified, identified, 1)
        second == IF first.ok THEN operator_pass(first.tokens, 1) ELSE first
    IN [ok |-> second.ok, tokens |-> SelectSeq(second.tokens, LAMBDA t : t # NoOp)]

\* The loop of Compiler::create_expressions from token i on, with its last
\* push: the expressions.
RECURSIVE split_expressions(_, _, _, _)
split_expressions(tokens, i, temp, expressions) ==
    IF i > Len(tokens) THEN (IF temp # <<>> THEN Append(expressions, temp) ELSE expressions)
    ELSE IF tokens[i].t = "NewLine"
    THEN split_expressions(tokens, i + 1, <<>>,
                           IF temp # <<>> THEN Append(expressions, temp) ELSE expressions)
    ELSE split_expressions(tokens, i + 1, Append(temp, tokens[i]), expressions)

\* Compiler::new.
NewCompiler == [lexer |-> NewLexer]

\* Compiler::create_expressions: [compiler, ok, expressions], the compiler
\* after the call, whether the call returned and what it returned.
create_expressions(compiler, input) ==
    LET lexer == scan(compiler.lexer, input, 1)
        tokens == tokenize(lexer.result)
    IN IF lexer.panicked \/ ~tokens.ok
       THEN [compiler |-> [compiler EXCEPT !.lexer = lexer], ok |-> FALSE, expressions |-> <<>>]
       ELSE [compiler |-> [compiler EXCEPT !.lexer = lexer], ok |-> TRUE,
             expressions |-> split_expressions(tokens.tokens, 1, <<>>, <<>>)]

(***************************************************************************)
(* The compiler on its own: a Compiler built by Compiler::new and the      *)
(* calls of create_expressions made on it, as the tests of tesl/mod.rs     *)
(* make them.  `call.self` is the compiler, `call.other` the input of the  *)
(* last call and `call.ret` what it returned.                              *)
(***************************************************************************)
\* Number of calls made on one compiler.
MaxTeslCalls == 3

\* The inputs, by name.
TeslInput(name) ==
    CASE name = "declaration" -> <<"i", "n", "t", " ", "a", " ", "=", " ", "1">>
      [] name = "two-lines" ->
           <<"\n", " ", "i", "n", "t", " ", "a", " ", "=", " ", "1", "\n",
             " ", "i", "n", "t", " ", "b", " ", "=", " ", "a", " ", "+", " ", "1", "\n", " ">>
      [] name = "blank-lines" -> <<"\n", "\n", "i", "f", " ", "x", "\n", " ", "\n">>
      [] name = "string" -> <<"s", "t", "r", " ", "b", "=", "\"", "t", " ", "u", "\"">>
      [] name = "range" -> <<"f", "o", "r", " ", "i", " ", "i", "n", " ", "1", ".", ".", "3">>
      [] name = "float" -> <<"f", "l", "o", "a", "t", " ", "f", " ", "=", " ", "1", ".", "5", "0">>
      [] name = "bool" -> <<"b", "o", "o", "l", " ", "t", " ", "=", " ", "t", "r", "u", "e">>
      [] name = "empty" -> <<>>

TeslInputNames ==
    {"declaration", "two-lines", "blank-lines", "string", "range", "float", "bool", "empty"}

InitTesl ==
    /\ ed = NewEditor
    /\ pre = ed
    /\ mid = ed
    /\ ev = [type |-> "Init", key |-> ""]
    /\ steps = 0
    /\ call = [fn |-> "new", self |-> NewCompiler, other |-> <<>>, lines |-> <<>>,
               ret |-> [ok |-> TRUE, expressions |-> <<>>]]
    /\ tween = NoTween
    /\ twin = ed

\* compiler.create_expressions(input).
CallCreateExpressions ==
    /\ call.ret.ok
    /\ steps < MaxTeslCalls
    /\ \E name \in TeslInputNames :
         LET r == create_expressions(call.self, TeslInput(name))
         IN call' = [call EXCEPT !.fn = "create_expressions",
                                 !.self = r.compiler,
                                 !.other = TeslInput(name),
                                 !.ret = [ok |-> r.ok, expressions |-> r.expressions]]
    /\ steps' = steps + 1
    /\ UNCHANGED <<ed, pre, mid, ev, tween, twin>>

\* let mut compiler = Compiler::new(): the next test starts.
CallNewCompiler ==
    /\ call.fn # "new"
    /\ call' = [call EXCEPT !.fn = "new", !.self = NewCompiler, !.other = <<>>,
                            !.ret = [ok |-> TRUE, expressions |-> <<>>]]
    /\ steps' = 0
    /\ UNCHANGED <<ed, pre, mid, ev, tween, twin>>

NextTesl ==
    \/ CallCreateExpressions
    \/ CallNewCompiler

SpecTesl == InitTesl /\ [][NextTesl]_vars

(***************************************************************************)
(* The claims.  Each is a predicate on the last callback: the editor       *)
(* before it (pre), the editor its operation returned (mid) and the editor *)
(* the callback left (ed).                                                 *)
(***************************************************************************)
\* The text of the document, row by row.
Texts(e) == [i \in 1 .. Len(e.lines) |-> e.lines[i].buffer]

\* The cursor addresses an existing slot of the document.
CursorInDocument(e) ==
    /\ Len(e.lines) >= 1
    /\ 0 <= e.cursor.y /\ e.cursor.y <= Len(e.lines) - 1
    /\ 0 <= e.cursor.x /\ e.cursor.x <= Len(Buffer(e, e.cursor.y))

\* p is a position of the document.
InDocument(e, p) ==
    /\ 0 <= p.y /\ p.y <= Len(e.lines) - 1
    /\ 0 <= p.x /\ p.x <= Len(Buffer(e, p.y))

\* The last callback was on_key_down(keycode) with the keyboard on the editor.
KeyPressed(keycode) == ev.type = "Key" /\ ev.key = keycode /\ pre.focus = "Editor"

\* The last callback was on_keyboard_char and it ran add_char.
CharTyped == ev.type = "Char" /\ (pre.focus = "Editor" \/ pre.menu = "Chip")

\* C1: in every state reached through the Editable operations, under any
\* modifier combination, the document has at least one line and the cursor
\* addresses an existing slot: 0 <= cursor.y <= last row and
\* 0 <= cursor.x <= length of line cursor.y.
C1_CursorAddressesSlot ==
    /\ ~mid.crashed => CursorInDocument(mid)
    /\ ~ed.crashed => CursorInDocument(ed)

\* C2: no sequence of user inputs drives the editor into an out-of-range
\* line/column access or a failed assertion.
C2_NoPanic == ~ed.crashed

\* C3: add_char(c) with a valid selection, c not an opener and Cmd not held:
\* the selected text is replaced by c.  The selection is cleared and the cursor
\* is one column right of the selection's real start, on its row, where c now
\* stands after the text that preceded the selection on that row; when the
\* selection lies on one row, that row is its old text with the selected span
\* replaced by c and every other row is unchanged.
C3_SelectionReplaced ==
    (/\ CharTyped
     /\ ev.key \notin Openers
     /\ ~pre.modifiers.logo
     /\ selection_is_valid(pre)
     /\ InDocument(pre, Unwrap(selection_start(pre)))
     /\ InDocument(pre, Unwrap(selection_end(pre)))
     /\ CursorInDocument(pre))
    => LET start == Unwrap(selection_start(pre))
           end == Unwrap(selection_end(pre))
           row == Buffer(pre, start.y)
       IN /\ ~mid.crashed
          /\ ~selection_is_valid(mid)
          /\ mid.cursor = Pos(start.x + 1, start.y)
          /\ Len(Buffer(mid, start.y)) > start.x
          /\ SubSeq(Buffer(mid, start.y), 1, start.x + 1) = SubSeq(row, 1, start.x) \o <<ev.key>>
          /\ start.y = end.y =>
               Texts(mid) = [Texts(pre) EXCEPT ![start.y + 1] =
                                SubSeq(row, 1, start.x) \o <<ev.key>>
                                    \o SubSeq(row, end.x + 1, Len(row))]

\* C4: add_char(o) for an opener o, Cmd not held, brackets the selection or the
\* cursor: o goes immediately before the selection's real start (or at the
\* cursor) and the matching closer immediately after its real end (or directly
\* after o), each on the row of that position; nothing else changes, the
\* selection is cleared and with no selection the cursor ends between the two.
C4_Bracketed ==
    (/\ CharTyped
     /\ ev.key \in Openers
     /\ ~pre.modifiers.logo
     /\ CursorInDocument(pre)
     /\ selection_is_valid(pre) =>
            /\ InDocument(pre, Unwrap(selection_start(pre)))
            /\ InDocument(pre, Unwrap(selection_end(pre))))
    => LET start == IF selection_is_valid(pre) THEN Unwrap(selection_start(pre)) ELSE pre.cursor
           end == IF selection_is_valid(pre) THEN Unwrap(selection_end(pre)) ELSE pre.cursor
           o == ev.key
           first == Buffer(pre, start.y)
           last == Buffer(pre, end.y)
           expected ==
               IF start.y = end.y
               THEN [Texts(pre) EXCEPT ![start.y + 1] =
                        SubSeq(first, 1, start.x) \o <<o>> \o SubSeq(first, start.x + 1, end.x)
                            \o <<Closer(o)>> \o SubSeq(first, end.x + 1, Len(first))]
               ELSE [Texts(pre) EXCEPT ![start.y + 1] = InsertAt(first, start.x, o),
                                       ![end.y + 1] = InsertAt(last, end.x, Closer(o))]
       IN /\ ~mid.crashed
          /\ Texts(mid) = expected
          /\ ~selection_is_valid(mid)
          /\ ~selection_is_valid(pre) => mid.cursor = Pos(pre.cursor.x + 1, pre.cursor.y)

\* C5: auto-pair round trip.  With no selection and no modifier held, typing an
\* opener and then pressing Backspace once restores the line buffer and the
\* cursor column (the state after the typed opener is the last callback's; the
\* Backspace is the callback on_key_down applied to it).
C5_PairRoundTrip ==
    (/\ CharTyped
     /\ ev.key \in Openers
     /\ pre.focus = "Editor"
     /\ pre.modifiers = NoModifiers
     /\ ~selection_is_valid(pre)
     /\ CursorInDocument(pre)
     /\ ~ed.crashed)
    => LET back == on_key_down(ed, "Backspace")
       IN /\ ~back.crashed
          /\ Texts(back) = Texts(pre)
          /\ back.cursor = pre.cursor

\* C6: delete_char() with no selection and neither Alt nor Cmd, at column 0 of
\* a row r > 0, merges row r onto row r - 1: row r - 1 becomes its old text
\* followed by that of row r, row r is removed, the other rows are unchanged and
\* the cursor lands at (length of the old row r - 1, r - 1); at column 0 of row
\* 0 nothing changes.
C6_MergeWithPreviousRow ==
    (/\ KeyPressed("Backspace")
     /\ ~selection_is_valid(pre)
     /\ ~pre.modifiers.alt /\ ~pre.modifiers.logo
     /\ CursorInDocument(pre)
     /\ pre.cursor.x = 0)
    => LET r == pre.cursor.y
           before == Texts(pre)
       IN /\ ~mid.crashed
          /\ r = 0 => Texts(mid) = before /\ mid.cursor = pre.cursor
          /\ r > 0 =>
               /\ Texts(mid) = SubSeq(before, 1, r - 1) \o <<before[r] \o before[r + 1]>>
                                   \o SubSeq(before, r + 2, Len(before))
               /\ mid.cursor = Pos(Len(before[r]), r - 1)

\* What the claims expect of delete_selection on a document e whose selection
\* runs from start to end: the span of every row of the selection is taken
\* out, and the rows of the selection left empty are removed, row 0 excepted.
TextsWithoutSelection(e, start, end) ==
    LET Rest(y) == LET row == Buffer(e, y)
                   IN IF y < start.y \/ y > end.y THEN row
                      ELSE Drain(row, IF y = start.y THEN start.x ELSE 0,
                                 IF y = end.y THEN end.x ELSE Len(row))
        rows == [i \in 1 .. Len(e.lines) |->
                    [text |-> Rest(i - 1),
                     keep |-> \/ i - 1 < start.y \/ i - 1 > end.y
                              \/ i - 1 = 0
                              \/ Rest(i - 1) # <<>>]]
        kept == SelectSeq(rows, LAMBDA row : row.keep)
    IN [i \in 1 .. Len(kept) |-> kept[i].text]

\* C7: delete_selection() never removes row 0.  For any valid selection the
\* rows of the selected span that became empty are removed, except the first
\* row of the document, which stays in place even when the selection empties
\* it.
C7_FirstRowStays ==
    (/\ KeyPressed("Backspace")
     /\ ~pre.modifiers.alt /\ ~pre.modifiers.logo
     /\ selection_is_valid(pre)
     /\ InDocument(pre, Unwrap(selection_start(pre)))
     /\ InDocument(pre, Unwrap(selection_end(pre))))
    => /\ ~mid.crashed
       /\ Texts(mid) = TextsWithoutSelection(pre, Unwrap(selection_start(pre)),
                                             Unwrap(selection_end(pre)))

\* The number of spaces a text begins with.
LeadingSpaces(text) ==
    CHOOSE n \in 0 .. Len(text) :
        /\ \A i \in 1 .. n : text[i] = " "
        /\ n = Len(text) \/ text[n + 1] # " "

\* The auto-continuation rule as the claims state it, on the text left of the
\* cursor: trimmed, it begins with "-" and has more than one non-whitespace
\* character.
ContinuationApplies(text) ==
    /\ Cardinality({i \in 1 .. Len(text) : text[i] # " "}) > 1
    /\ text[LeadingSpaces(text) + 1] = "-"

\* new_line() is the operation of the last callback: Return on the editor,
\* without Alt, with no selection and the cursor on a slot of the document.
NewLineCalled ==
    /\ KeyPressed("Return")
    /\ ~pre.modifiers.alt
    /\ ~selection_is_valid(pre)
    /\ CursorInDocument(pre)

\* C8: new_line() with no selection and the cursor at (x, r), when the
\* auto-continuation rule does not apply: row r keeps its first x characters,
\* the new row r + 1 holds exactly the characters that were after the cursor,
\* the rows that followed are shifted down by one and otherwise unchanged, the
\* line count grows by exactly one and the cursor is at column 0 of row r + 1.
C8_LineSplit ==
    (/\ NewLineCalled
     /\ ~ContinuationApplies(SubSeq(Buffer(pre, pre.cursor.y), 1, pre.cursor.x)))
    => LET x == pre.cursor.x
           r == pre.cursor.y
           before == Texts(pre)
           row == before[r + 1]
           expected == SubSeq(before, 1, r)
                           \o <<SubSeq(row, 1, x), SubSeq(row, x + 1, Len(row))>>
                           \o SubSeq(before, r + 2, Len(before))
       IN /\ ~mid.crashed /\ ~ed.crashed
          /\ Len(mid.lines) = Len(pre.lines) + 1
          /\ Texts(mid) = expected
          /\ mid.cursor = Pos(0, r + 1)
          /\ Texts(ed) = expected
          /\ ed.cursor = Pos(0, r + 1)

\* Witness of C8: a line was split in its middle, with rows following it.
C8_Witness ==
    /\ NewLineCalled
    /\ ~ContinuationApplies(SubSeq(Buffer(pre, pre.cursor.y), 1, pre.cursor.x))
    /\ pre.cursor.x > 0
    /\ pre.cursor.x < Len(Buffer(pre, pre.cursor.y))
    /\ pre.cursor.y < Len(pre.lines) - 1
    /\ Len(ed.lines) = Len(pre.lines) + 1

\* C9: new_line() auto-continuation, on any row (row 0 included): when the
\* rule applies to the text left of the cursor, the new row begins with that
\* text's leading whitespace followed by "- ", before the text carried over
\* from after the cursor, and the cursor is just past that prefix; otherwise
\* the new row receives no prefix.
C9_ListContinues ==
    NewLineCalled
    => LET x == pre.cursor.x
           r == pre.cursor.y
           row == Buffer(pre, r)
           left == SubSeq(row, 1, x)
           carried == SubSeq(row, x + 1, Len(row))
           prefix == [i \in 1 .. LeadingSpaces(left) |-> " "] \o <<"-", " ">>
       IN /\ ~mid.crashed
          /\ Len(mid.lines) = Len(pre.lines) + 1
          /\ IF ContinuationApplies(left)
             THEN /\ Buffer(mid, r + 1) = prefix \o carried
                  /\ mid.cursor = Pos(Len(prefix), r + 1)
             ELSE Buffer(mid, r + 1) = carried

\* The delimiters of the word jump as the claim lists them.
Delimiters == {" ", "_", "-", "/", "(", ")", "[", "]", "{", "}", "\"", "'"}

\* From column c of a text: past the run of delimiters that starts at c, then
\* past the run of other characters that follows.
JumpRight(text, c) ==
    LET d == CHOOSE i \in c .. Len(text) :
                 /\ \A j \in c + 1 .. i : text[j] \in Delimiters
                 /\ i = Len(text) \/ text[i + 1] \notin Delimiters
    IN CHOOSE i \in d .. Len(text) :
           /\ \A j \in d + 1 .. i : text[j] \notin Delimiters
           /\ i = Len(text) \/ text[i + 1] \in Delimiters

\* The mirror image: back over the delimiters that end at c, then over the
\* run of other characters before them.
JumpLeft(text, c) ==
    LET d == CHOOSE i \in 0 .. c :
                 /\ \A j \in i + 1 .. c : text[j] \in Delimiters
                 /\ i = 0 \/ text[i] \notin Delimiters
    IN CHOOSE i \in 0 .. d :
           /\ \A j \in i + 1 .. d : text[j] \notin Delimiters
           /\ i = 0 \/ text[i] \in Delimiters

\* An arrow key reached move_cursor_relative with only Alt held, no selection
\* and the cursor on a slot of the document.
WordJumpCalled(keycode) ==
    /\ KeyPressed(keycode)
    /\ pre.modifiers = [NoModifiers EXCEPT !.alt = TRUE]
    /\ ~selection_is_valid(pre)
    /\ CursorInDocument(pre)

\* C10: word jump.  With only Alt held and no selection,
\* move_cursor_relative(+1, 0) from a column c that is not the end of the line
\* moves the cursor, on the same row, past the run of delimiters starting at c
\* and then past the run of non-delimiters that follows;
\* move_cursor_relative(-1, 0) from a column that is not the start of the line
\* is the mirror image; the document is not changed.
C10_WordJump ==
    LET c == pre.cursor.x
        r == pre.cursor.y
        text == Buffer(pre, r)
    IN /\ (WordJumpCalled("Right") /\ c < Len(text))
          => /\ ~mid.crashed /\ ~ed.crashed
             /\ mid.cursor = Pos(JumpRight(text, c), r)
             /\ ed.cursor = mid.cursor
             /\ Texts(ed) = Texts(pre)
       /\ (WordJumpCalled("Left") /\ c > 0)
          => /\ ~mid.crashed /\ ~ed.crashed
             /\ mid.cursor = Pos(JumpLeft(text, c), r)
             /\ ed.cursor = mid.cursor
             /\ Texts(ed) = Texts(pre)

\* Witness of C10: Alt+Right on "hello world" took the cursor from column 0 to
\* column 5.
C10_Witness ==
    /\ WordJumpCalled("Right")
    /\ Buffer(pre, 0) = <<"h", "e", "l", "l", "o", " ", "w", "o", "r", "l", "d">>
    /\ pre.cursor = Pos(0, 0)
    /\ ed.cursor = Pos(5, 0)

\* The direction an arrow key gives to move_cursor_relative.
RelX(keycode) == CASE keycode = "Right" -> 1 [] keycode = "Left" -> -1 [] OTHER -> 0
RelY(keycode) == CASE keycode = "Down" -> 1 [] keycode = "Up" -> -1 [] OTHER -> 0

\* The last callback was an arrow key that handle_key gave to
\* move_cursor_relative (Cmd+Alt turns Right, Left and Up into alignment keys).
MoveKeyPressed ==
    /\ ev.type = "Key" /\ ev.key \in {"Right", "Left", "Up", "Down"}
    /\ pre.focus = "Editor"
    /\ ~(pre.modifiers.logo /\ pre.modifiers.alt /\ ev.key # "Down")

\* move_cursor_relative ran on a valid selection without Shift and without
\* Cmd+Ctrl.
CollapseCalled ==
    /\ MoveKeyPressed
    /\ selection_is_valid(pre)
    /\ ~pre.modifiers.shift
    /\ ~(pre.modifiers.logo /\ pre.modifiers.ctrl)

\* C11: selection collapse.  When a selection is valid and
\* move_cursor_relative is called without Shift and without Cmd+Ctrl, the
\* cursor lands on the real end of the selection for a move to the right or
\* down and on its real start for a move to the left or up, the selection is
\* cleared and no line is modified.
C11_SelectionCollapse ==
    CollapseCalled
    => /\ ~mid.crashed
       /\ mid.cursor = IF RelX(ev.key) > 0 \/ RelY(ev.key) > 0
                       THEN Unwrap(selection_end(pre))
                       ELSE Unwrap(selection_start(pre))
       /\ mid.selection = EmptyRange
       /\ mid.lines = pre.lines

\* move_cursor_relative ran with Shift held and Ctrl not held.
ShiftMoveCalled ==
    /\ MoveKeyPressed
    /\ pre.modifiers.shift
    /\ ~pre.modifiers.ctrl

\* C12: Shift extension.  While Shift is held (Ctrl not held) every
\* move_cursor_relative call, in any direction and with or without Alt or
\* Cmd, leaves the selection anchored where it was (at the position the cursor
\* had before the move when there was no selection) with its other endpoint
\* on the cursor; the selection is valid exactly when the cursor differs from
\* the anchor.
C12_ShiftExtends ==
    ShiftMoveCalled
    => LET anchor == IF selection_is_valid(pre) THEN pre.selection.start
                     ELSE Some(pre.cursor)
       IN /\ ~mid.crashed
          /\ mid.selection.start = anchor
          /\ mid.selection.end = Some(mid.cursor)
          /\ selection_is_valid(mid) <=> (Some(mid.cursor) # anchor)
          /\ ed.selection = mid.selection
          /\ ed.cursor = mid.cursor

\* move_cursor_relative ran with no modifier held, no valid selection and the
\* cursor inside the document.
PlainMoveCalled ==
    /\ MoveKeyPressed
    /\ pre.modifiers = NoModifiers
    /\ ~selection_is_valid(pre)
    /\ CursorInDocument(pre)

\* The position a plain move leads to, by the rules of C13.
PlainMoveTarget(keycode) ==
    LET x == pre.cursor.x
        y == pre.cursor.y
        last == Len(pre.lines) - 1
        len(row) == Len(Buffer(pre, row))
        dest == IF keycode = "Down" THEN Min(y + 1, last) ELSE Max(y - 1, 0)
    IN CASE keycode = "Right" ->
              IF x = len(y) THEN (IF y = last THEN Pos(x, y) ELSE Pos(0, y + 1))
              ELSE Pos(x + 1, y)
         [] keycode = "Left" ->
              IF x = 0 THEN (IF y = 0 THEN Pos(x, y) ELSE Pos(len(y - 1), y - 1))
              ELSE Pos(x - 1, y)
         [] OTHER -> Pos(Min(x, len(dest)), dest)

\* C13: plain cursor motion.  With no modifier and no valid selection, Right
\* at the end of a row goes to column 0 of the next row (stays on the last
\* row), Left at column 0 goes to the end of the previous row (stays on row
\* 0), Up/Down go to the adjacent row, clamped to the first/last row, at
\* column min(current column, length of the destination row), and otherwise
\* the column changes by exactly one.  The text is left alone.
C13_PlainMotion ==
    PlainMoveCalled
    => /\ ~mid.crashed
       /\ mid.cursor = PlainMoveTarget(ev.key)
       /\ mid.lines = pre.lines
       /\ ed.cursor = mid.cursor

\* Witness of C13: Down onto a shorter row pulled the column back to the end
\* of that row.
C13_Witness ==
    /\ PlainMoveCalled
    /\ ev.key = "Down"
    /\ mid.cursor.y = pre.cursor.y + 1
    /\ mid.cursor.x = Len(Buffer(pre, mid.cursor.y))
    /\ mid.cursor.x < pre.cursor.x

\* move_cursor_relative(0, +/-1) ran with Cmd and Ctrl held (Alt released:
\* with Alt the arm of the word jump is taken) and the cursor inside the
\* document.
ReorderCalled ==
    /\ MoveKeyPressed
    /\ ev.key \in {"Up", "Down"}
    /\ pre.modifiers.logo /\ pre.modifiers.ctrl /\ ~pre.modifiers.alt
    /\ CursorInDocument(pre)

\* First and last row of the block that is reordered.
BlockTop == IF selection_is_valid(pre) THEN Unwrap(selection_start(pre)).y ELSE pre.cursor.y
BlockBottom == IF selection_is_valid(pre) THEN Unwrap(selection_end(pre)).y ELSE pre.cursor.y

\* The rows after the block BlockTop..BlockBottom changed places with its
\* neighbour in direction dir.
Reordered(dir) ==
    [i \in 1 .. Len(pre.lines) |->
        IF dir < 0
        THEN IF i - 1 = BlockBottom THEN pre.lines[BlockTop]
             ELSE IF BlockTop - 1 <= i - 1 /\ i - 1 < BlockBottom THEN pre.lines[i + 1]
             ELSE pre.lines[i]
        ELSE IF i - 1 = BlockTop THEN pre.lines[BlockBottom + 2]
             ELSE IF BlockTop < i - 1 /\ i - 1 <= BlockBottom + 1 THEN pre.lines[i - 1]
             ELSE pre.lines[i]]

\* C14: line reorder.  With Cmd and Ctrl held, Up/Down swaps the cursor's line
\* (or the block of lines covered by the selection) with the neighbouring
\* line in that direction; the cursor and both ends of the selection move
\* with the lines and keep their columns; when there is no neighbour in that
\* direction the document is left unchanged.
C14_LineReorder ==
    ReorderCalled
    => LET dir == RelY(ev.key)
           neighbour == IF dir < 0 THEN BlockTop > 0 ELSE BlockBottom < Len(pre.lines) - 1
       IN /\ ~mid.crashed
          /\ IF neighbour
             THEN /\ mid.lines = Reordered(dir)
                  /\ mid.cursor = Pos(pre.cursor.x, pre.cursor.y + dir)
                  /\ selection_is_valid(pre)
                     => /\ selection_is_valid(mid)
                        /\ Unwrap(selection_start(mid))
                             = Pos(Unwrap(selection_start(pre)).x, BlockTop + dir)
                        /\ Unwrap(selection_end(mid))
                             = Pos(Unwrap(selection_end(pre)).x, BlockBottom + dir)
             ELSE mid.lines = pre.lines

\* The valid ranges between two positions of the style file.
StyleRanges == {NewRange(p, q) : p, q \in StyleMousePositions} \ {NewRange(p, p) : p \in StyleMousePositions}

\* add_range_to_buffer(R) applied twice in a row.
ToggledTwice(R, buffer) == add_range_to_buffer(R, add_range_to_buffer(R, buffer))

\* R has no entry of the buffer that it includes or that includes it.
Unrelated(R, buffer) ==
    \A i \in 1 .. Len(buffer) : ~include(R, buffer[i]) /\ ~include(buffer[i], R)

\* The last callback left the style buffers as they are now for the first
\* time: a file was opened or a style item picked (the mouse callbacks do not
\* touch the buffers).
StyleBuffersSet == ev.type \in {"Init", "OpenFile", "UserEvent"}

Contains(e1, e2) ==
    /\ vector_min(Unwrap(get_real_start(e1)), Unwrap(get_real_start(e2)))
         = Unwrap(get_real_start(e1))
    /\ vector_max(Unwrap(get_real_end(e1)), Unwrap(get_real_end(e2)))
         = Unwrap(get_real_end(e1))

NoEntryContainsAnother(buffer) ==
    \A i, j \in 1 .. Len(buffer) : i # j => ~Contains(buffer[i], buffer[j])

\* C16: style buffer invariant.  After any sequence of underline()/bold()
\* toggles with valid selections, no entry of a style buffer fully contains
\* another entry of the same buffer.
C16_NoEntryContainsAnother ==
    StyleBuffersSet
    => /\ NoEntryContainsAnother(ed.underline_buffer)
       /\ NoEntryContainsAnother(ed.bold_buffer)

\* The last callback was the pick of a style item with a valid selection:
\* add_range_to_buffer ran on the buffer of that item.
StyleItemPicked == ev.type = "UserEvent" /\ ev.key \in StyleItems /\ is_valid(pre.selection)

\* The buffer of the item picked, in editor e.
PickedBuffer(e) == IF ev.key = "Underline" THEN e.underline_buffer ELSE e.bold_buffer

\* Range R lies inside entry E without covering the same span.
StrictlyInside(R, E) == Contains(E, R) /\ ~Contains(R, E)

\* What is left of entry E around R: [E.real_start, R.real_start] and
\* [R.real_end, E.real_end], an empty piece discarded.
Pieces(E, R) ==
    LET before == NewRange(Unwrap(get_real_start(E)), Unwrap(get_real_start(R)))
        after == NewRange(Unwrap(get_real_end(R)), Unwrap(get_real_end(E)))
    IN (IF is_valid(before) THEN <<before>> ELSE <<>>)
       \o (IF is_valid(after) THEN <<after>> ELSE <<>>)

\* Number of entries of the buffer equal to r.
Occurrences(r, buffer) == Cardinality({i \in 1 .. Len(buffer) : buffer[i] = r})

\* The two buffers hold the same entries the same number of times.
SameEntries(b1, b2) ==
    /\ Len(b1) = Len(b2)
    /\ \A i \in 1 .. Len(b1) : Occurrences(b1[i], b1) = Occurrences(b1[i], b2)

\* C17: style split.  When add_range_to_buffer is given a Range R that lies
\* inside an existing entry E without being equal to it, E is replaced by its
\* pieces before and after R (an empty piece is discarded), R itself is not
\* stored and no other entry is changed.
C17_StyleSplit ==
    StyleItemPicked
    => LET R == pre.selection
           buffer == PickedBuffer(pre)
       IN (\E i \in 1 .. Len(buffer) : StrictlyInside(R, buffer[i]))
          => \E i \in 1 .. Len(buffer) :
                /\ StrictlyInside(R, buffer[i])
                /\ SameEntries(PickedBuffer(ed),
                               RemoveAt(buffer, i - 1) \o Pieces(buffer[i], R))

\* Position p is not after position q in the document (row first, then column).
NotAfter(p, q) == p.y < q.y \/ (p.y = q.y /\ p.x <= q.x)

\* Both endpoints of the range are set and they differ.
BothEndsDiffer(r) == r.start # None /\ r.end # None /\ r.start # r.end

\* Number of characters of row y of lines, 0 for a row the document lacks.
RowLength(lines, y) == IF y < Len(lines) THEN Len(lines[y + 1].buffer) ELSE 0

\* One (col_start, col_end) pair per row from the row of `first` to the row
\* of `last`, as C18 gives them.
PairsBetween(first, last, lines) ==
    [i \in 1 .. last.y - first.y + 1 |->
        LET y == first.y + i - 1
        IN IF first.y = last.y THEN <<first.x, last.x>>
           ELSE IF y = first.y THEN <<first.x, RowLength(lines, y)>>
           ELSE IF y = last.y THEN <<0, last.x>>
           ELSE <<0, RowLength(lines, y)>>]

\* C18: get_lines_index.  For every valid Range, whichever order its
\* endpoints were given in, the result has exactly one (col_start, col_end)
\* pair per row from the row of the real start to the row of the real end, in
\* row order: (start.col, end.col) on a single row; otherwise (start.col,
\* length of the row) for the first row, (0, length of the row) for an
\* interior row and (0, end.col) for the last row.  (2,0)-(5,0) gives
\* [(2,5)]; (3,0)-(2,1) over rows of length 10 gives [(3,10),(0,2)].
C18_GetLinesIndex ==
    (call.fn = "get_lines_index" /\ BothEndsDiffer(call.self))
    => LET a == Unwrap(call.self.start)
           b == Unwrap(call.self.end)
       IN /\ call.ret.ok
          /\ call.ret.idx = IF NotAfter(a, b) THEN PairsBetween(a, b, call.lines)
                            ELSE PairsBetween(b, a, call.lines)
          /\ call.self = NewRange(Pos(2, 0), Pos(5, 0)) => call.ret.idx = << <<2, 5>> >>
          /\ (call.self = NewRange(Pos(3, 0), Pos(2, 1)) /\ Len(call.lines) = 3)
             => call.ret.idx = << <<3, 10>>, <<0, 2>> >>

\* Witness of C18: a range given end first, over three rows of a document.
C18_Witness ==
    /\ call.fn = "get_lines_index"
    /\ call.self = NewRange(Pos(2, 2), Pos(3, 0))
    /\ Len(call.lines) = 3
    /\ call.ret.idx = << <<3, 10>>, <<0, 10>>, <<0, 2>> >>

\* C19 as stated: Range.add is commutative and idempotent.  For all ranges A
\* and B, A.add(B) and B.add(A) produce equal ranges, and A.add(A) leaves A
\* unchanged.
C19_AddCommutesAsStated ==
    call.fn = "add"
    => /\ call.ret = range_add(call.other, call.self)
       /\ call.other = call.self => call.ret = call.self

\* C19, amended: Range.add is idempotent, and it is commutative when at least
\* one of the two ranges is valid; when both are invalid each call leaves its
\* receiver as it is.
C19_AddCommutes ==
    call.fn = "add"
    => /\ (BothEndsDiffer(call.self) \/ BothEndsDiffer(call.other))
          => call.ret = range_add(call.other, call.self)
       /\ (~BothEndsDiffer(call.self) /\ ~BothEndsDiffer(call.other))
          => call.ret = call.self
       /\ call.other = call.self => call.ret = call.self

\* Witness of C19: two valid ranges were added into a range that is neither.
C19_Witness ==
    /\ call.fn = "add"
    /\ BothEndsDiffer(call.self) /\ BothEndsDiffer(call.other)
    /\ call.ret = range_add(call.other, call.self)
    /\ call.ret # call.self /\ call.ret # call.other

\* C20: the range functions report an invalid range as a value.  For a Range
\* with a missing endpoint or with start equal to end, is_valid is false,
\* get_real_start and get_real_end return None, get_lines_index returns an
\* empty list, include returns false in both directions, and add with an
\* invalid argument leaves the receiver unchanged.
C20_InvalidRange ==
    /\ (call.fn = "is_valid" /\ ~BothEndsDiffer(call.self)) => call.ret = FALSE
    /\ (call.fn \in {"get_real_start", "get_real_end"} /\ ~BothEndsDiffer(call.self))
       => call.ret = None
    /\ (call.fn = "get_lines_index" /\ ~BothEndsDiffer(call.self))
       => call.ret.ok /\ call.ret.idx = <<>>
    /\ (call.fn = "include" /\ (~BothEndsDiffer(call.self) \/ ~BothEndsDiffer(call.other)))
       => call.ret = FALSE
    /\ (call.fn = "add" /\ ~BothEndsDiffer(call.other)) => call.ret = call.self

\* Witness of C20: include was asked whether a valid range includes a range
\* that starts and ends on one position inside it.
C20_Witness ==
    /\ call.fn = "include"
    /\ call.self = NewRange(Pos(2, 0), Pos(5, 2))
    /\ call.other = NewRange(Pos(3, 1), Pos(3, 1))
    /\ call.ret = FALSE

(***************************************************************************)
(* The tween claims (SpecTween).                                           *)
(***************************************************************************)
\* C21: a tween with from # to that is started and not paused, once it has
\* been fed update calls whose delta_time sum to its duration (or more), is
\* ended and its value is `to`.
C21_TweenCompletes ==
    LET a == tween.animation
    IN a.from # a.to /\ a.has_started /\ ~a.is_paused /\ tween.fed >= a.duration
       => a.is_ended /\ a.value = a.to

\* C28: in every state of a tween reached through new, start, update, pause,
\* resume, toggle and reset, the progress last_t is within 0 .. 1 and value
\* is from + (to - from) * easing(last_t).
C28_TweenValue ==
    LET a == tween.animation
        e == get_easing_fn(a.easing, a.last_t)
    IN /\ ~a.nan
       /\ a.last_t \in 0 .. TUnit
       /\ a.value = a.from + ((a.to - a.from) * e.num) \div e.den

\* C29: a tween built with from = to is ended by its construction, and no
\* sequence of start, pause, resume, toggle, reset and update calls makes
\* update evaluate its progress formula for it: its progress and its value
\* never become NaN and stay what the construction made them.
C29_ZeroLengthGuard ==
    LET a == tween.animation
    IN a.from = a.to
       => /\ tween.called = "new" => a.is_ended
          /\ a.has_started => a.is_ended
          /\ ~a.nan
          /\ a.last_t = 0
          /\ a.value = a.from

\* A zero-length tween has been reset and started again, and update has been
\* called on it with a positive delta_time while it was not paused.
C29_Witness ==
    LET a == tween.animation
    IN /\ a.from = a.to
       /\ tween.called = "update"
       /\ tween.delta_time > 0
       /\ a.has_started
       /\ ~a.is_paused

\* C30: every easing curve returns 0 at the progress 0 and 1 at the
\* progress 1.
C30_EasingEndpoints ==
    tween.called = "easing_fn"
    => /\ tween.t = 0 => tween.eased.num = 0
       /\ tween.t = TUnit => tween.eased.num = tween.eased.den

(***************************************************************************)
(* The rendering claims (SpecView, SpecViewTicking, SpecDrag).             *)
(***************************************************************************)
\* The logical state of an editor: the lines, the cursor, the selection
\* range, the style buffers and the camera's logical offset.
Logical(e) ==
    [lines |-> e.lines,
     cursor |-> e.cursor,
     selection |-> e.selection,
     underline_buffer |-> e.underline_buffer,
     bold_buffer |-> e.bold_buffer,
     camera |-> Pos(e.camera.x, e.camera.y)]

\* C24: after any sequence of keyboard operations the logical state is the
\* same whatever ticks were delivered in between, none included: the editor
\* and its twin, which received no tick, agree on it.
C24_LogicDecoupled == Logical(ed) = Logical(twin)

\* The last callback was a keyboard operation that moved the cursor, so
\* update_camera has run on the cursor's new position.
CursorMovedByKey == ev.type \in {"Key", "Char"} /\ ~ed.crashed /\ ed.cursor # pre.cursor

\* The cursor's real pixel position, taken from the camera's logical offset,
\* is within the margins on both axes (the quantities update_camera compares).
InSafeZone(e) ==
    LET c == e.camera
        left == Pixels(e.cursor.x, CharWidth) + c.initial_x - CharWidth - (c.x + c.initial_x)
        right == EDITOR_PADDING + Pixels(e.cursor.x, CharWidth) - (c.x + c.initial_x)
        top == Pixels(e.cursor.y, CharHeight) + c.initial_y - CharHeight - (c.y + c.initial_y)
        bottom == EDITOR_PADDING + Pixels(e.cursor.y, CharHeight) - (c.y + c.initial_y)
    IN /\ left >= c.safe_zone_size
       /\ right <= c.width - c.safe_zone_size
       /\ top >= c.safe_zone_size
       /\ bottom <= c.height - c.safe_zone_size

\* C25: after every cursor-affecting operation the cursor's real pixel
\* position relative to the camera offset is within
\* [safe_zone_size, extent - safe_zone_size] on both axes.
C25_SafeZone == CursorMovedByKey => InSafeZone(ed)

\* The pixel size of the document: its longest row and all its rows.
RECURSIVE LongestRow(_, _)
LongestRow(lines, i) ==
    IF i = 0 THEN 0 ELSE Max(Len(lines[i].buffer), LongestRow(lines, i - 1))
ExtentX(e) == LongestRow(e.lines, Len(e.lines)) * CharWidth
ExtentY(e) == Len(e.lines) * CharHeight

\* C26: whatever Camera::move_x / move_y calls were made, the camera's
\* logical offset is within [0, extent] on each axis.
C26_CameraClamp ==
    /\ ed.camera.x >= 0 /\ ed.camera.x <= ExtentX(ed)
    /\ ed.camera.y >= 0 /\ ed.camera.y <= ExtentY(ed)

\* The rendered positions: computed_x()/computed_y() of the cursor and of the
\* camera.
Rendered(e) ==
    [cursor |-> Pos(cursor_computed_x(e), cursor_computed_y(e)),
     camera |-> Pos(camera_computed_x(e.camera), camera_computed_y(e.camera))]

\* The last callback was a keyboard or file operation, the callbacks that call
\* Cursor::move_to and Camera::move_x / move_y.
Retargeting == ev.type \in {"Key", "Char", "OpenFile"} /\ ~ed.crashed

\* C22: right after a callback that retargets the cursor or the camera,
\* computed_x()/computed_y() of both are what they were right before it,
\* whether or not a tween was in flight.
C22_NoVisualJump == Retargeting => Rendered(ed) = Rendered(pre)

\* A key moved the cursor and scrolled the camera while the tweens of both
\* were in flight, part of the way to their targets.
C22_Witness ==
    /\ Retargeting
    /\ ed.cursor # pre.cursor
    /\ ed.camera.y # pre.camera.y
    /\ IsSome(pre.cursor_animation.y) /\ IsSome(pre.camera.animation.y)
    /\ Unwrap(pre.cursor_animation.y).last_t > 0
    /\ Unwrap(pre.camera.animation.y).last_t > 0
    /\ cursor_computed_y(pre) # real_y(pre)
    /\ camera_computed_y(pre.camera) # pre.camera.y + pre.camera.initial_y

\* Every tween slot of the cursor, the camera and the selection endpoints is
\* empty, and the computed positions are the exact pixel values of the
\* logical coordinates.
Settled(e) ==
    /\ e.cursor_animation = NoAnimation
    /\ e.camera.animation = NoAnimation
    /\ e.start_animation = NoAnimation
    /\ e.end_animation = NoAnimation
    /\ cursor_computed_x(e) = real_x(e)
    /\ cursor_computed_y(e) = real_y(e)
    /\ camera_computed_x(e.camera) = e.camera.x + e.camera.initial_x
    /\ camera_computed_y(e.camera) = e.camera.y + e.camera.initial_y

\* C23: input stops in every behaviour (the keys are bounded by MaxViewSteps
\* or simply cease); with ticks of dt > 0 still delivered, eventually every
\* tween slot is empty and the computed positions are the exact ones, from
\* then on.
C23_Convergence == <>[](ed.crashed \/ Settled(ed))

\* A tick emptied the last slots after a key had scrolled the camera.
C23_Witness ==
    /\ ev.type = "Tick"
    /\ Settled(ed)
    /\ IsSome(pre.camera.animation.y)
    /\ IsSome(pre.cursor_animation.y)
    /\ ed.camera.y > 0

\* The last callback was a key that moved the cursor, so it ran
\* update_camera, and when it ran no drag was in progress: the left button
\* was up and Shift was not held.
KeyAfterDrag ==
    /\ ev.type = "Key"
    /\ ~ed.crashed
    /\ ed.cursor # pre.cursor
    /\ ~pre.mouse_pressed
    /\ ~pre.modifiers.shift

\* C27: a cursor-affecting operation that runs update_camera when no drag is
\* in progress runs it with the normal margin of 30: the margin of 5 of a
\* drag-selection has been restored once the drag has ended.
C27_MarginRestored == KeyAfterDrag => pre.camera.safe_zone_size = 30

(***************************************************************************)
(* The editing claims of delete_char, delete_selection and add_char (Spec) *)
(***************************************************************************)
\* C34: delete_char() with no selection and neither Alt nor Cmd, at a column
\* > 0: the character left of the cursor is removed and the cursor moves one
\* column left on its row; when that character is an opener and the
\* character right of the cursor is its matching closer, exactly those two
\* are removed; in every other case (two equal openers included) exactly one
\* character goes.  The other rows are unchanged.
C34_DeleteLeft ==
    (/\ KeyPressed("Backspace")
     /\ ~selection_is_valid(pre)
     /\ ~pre.modifiers.alt /\ ~pre.modifiers.logo
     /\ CursorInDocument(pre)
     /\ pre.cursor.x > 0)
    => LET x == pre.cursor.x
           y == pre.cursor.y
           row == Buffer(pre, y)
           pair == x < Len(row) /\ row[x] \in Openers /\ row[x + 1] = Closer(row[x])
       IN /\ ~mid.crashed
          /\ mid.cursor = Pos(x - 1, y)
          /\ Texts(mid) = [Texts(pre) EXCEPT ![y + 1] =
                              SubSeq(row, 1, x - 1)
                                  \o SubSeq(row, IF pair THEN x + 2 ELSE x + 1, Len(row))]

\* The characters of a sequence of rows, read in order.
RECURSIVE Characters(_)
Characters(rows) == IF rows = <<>> THEN <<>> ELSE Head(rows) \o Characters(Tail(rows))

\* The last callback was Backspace with a valid selection whose endpoints are
\* positions of the document, and neither Alt nor Cmd: delete_char ran
\* delete_selection on the selection as it was.
SelectionDeleted ==
    /\ KeyPressed("Backspace")
    /\ ~pre.modifiers.alt /\ ~pre.modifiers.logo
    /\ selection_is_valid(pre)
    /\ InDocument(pre, Unwrap(selection_start(pre)))
    /\ InDocument(pre, Unwrap(selection_end(pre)))

\* C35: delete_selection() removes exactly the selected text.  The characters
\* left in the document, read in order, are the original ones minus those
\* between the selection's real start and real end; the rows before and
\* after the selected span keep their content and order; the cursor ends at
\* the selection's real start and the selection is invalid.
C35_SelectionRemoved ==
    SelectionDeleted
    => LET start == Unwrap(selection_start(pre))
           end == Unwrap(selection_end(pre))
           before == Texts(pre)
           after == Texts(mid)
           below == Len(before) - 1 - end.y
       IN /\ ~mid.crashed
          /\ Characters(after) =
                 Characters(SubSeq(before, 1, start.y))
                     \o SubSeq(before[start.y + 1], 1, start.x)
                     \o SubSeq(before[end.y + 1], end.x + 1, Len(before[end.y + 1]))
                     \o Characters(SubSeq(before, end.y + 2, Len(before)))
          /\ Len(after) >= start.y + below
          /\ SubSeq(after, 1, start.y) = SubSeq(before, 1, start.y)
          /\ SubSeq(after, Len(after) - below + 1, Len(after))
                 = SubSeq(before, end.y + 2, Len(before))
          /\ mid.cursor = start
          /\ ~selection_is_valid(mid)

\* C36: add_char of a character with no selection and Cmd not held, whichever
\* of Shift or Alt is held: the character stands at the old cursor column, the
\* cursor is exactly one column further on the same row and no selection is
\* left behind.
C36_AdvanceOneColumn ==
    (/\ CharTyped
     /\ ~pre.modifiers.logo
     /\ ~selection_is_valid(pre)
     /\ CursorInDocument(pre))
    => LET x == pre.cursor.x
           y == pre.cursor.y
       IN /\ ~mid.crashed
          /\ Len(Buffer(mid, y)) > x
          /\ Buffer(mid, y)[x + 1] = ev.key
          /\ mid.cursor = Pos(x + 1, y)
          /\ ~selection_is_valid(mid)

\* C37: whenever the selection is valid, both of its endpoints address existing
\* positions of the document: a row of the document and a column between 0 and
\* the length of that row.
C37_SelectionInDocument ==
    (~ed.crashed /\ selection_is_valid(ed))
    => /\ InDocument(ed, Unwrap(ed.selection.start))
       /\ InDocument(ed, Unwrap(ed.selection.end))

(***************************************************************************)
(* The tween's end (SpecTween).                                            *)
(***************************************************************************)
\* C40: a started, unpaused tween with from # to is not marked ended before
\* the delta_time values fed to update since its start add up to its duration;
\* in particular an update with delta_time = 0 leaves it running.
C40_NeverEndsEarly ==
    LET a == tween.animation
    IN (/\ a.from # a.to
        /\ a.has_started
        /\ ~a.is_paused
        /\ tween.fed < a.duration)
       => ~a.is_ended

(***************************************************************************)
(* The union of two ranges (SpecRange).                                    *)
(***************************************************************************)
\* The earliest and the latest of four positions in document order.
Earliest(a, b, c, d) == vector_min(vector_min(a, b), vector_min(c, d))

Latest(a, b, c, d) == vector_max(vector_max(a, b), vector_max(c, d))

\* C39: for valid ranges A and B, whichever order their endpoints are stored
\* in, after A.add(B) the receiver runs from the earliest of the four endpoints
\* to the latest one in document order.
C39_UnionSpan ==
    (call.fn = "add" /\ is_valid(call.self) /\ is_valid(call.other))
    => LET a == Unwrap(call.self.start)
           b == Unwrap(call.self.end)
           c == Unwrap(call.other.start)
           d == Unwrap(call.other.end)
       IN /\ get_real_start(call.ret) = Some(Earliest(a, b, c, d))
          /\ get_real_end(call.ret) = Some(Latest(a, b, c, d))

(***************************************************************************)
(* The style toggle and the direction of the selection (SpecStyle).        *)
(***************************************************************************)
\* The two valid ranges cover the same span of the document.
SameSpan(r1, r2) ==
    /\ get_real_start(r1) = get_real_start(r2)
    /\ get_real_end(r1) = get_real_end(r2)

\* C38: the style toggle is independent of the direction of the selection.
\* When underline()/bold() is given a selection whose span is already stored
\* in the buffer, with its endpoints in the same order or in the opposite one,
\* the stored entry is removed: no entry of the buffer covers that span
\* afterwards.
C38_ToggleIgnoresDirection ==
    StyleItemPicked
    => LET R == pre.selection
           buffer == PickedBuffer(pre)
       IN (\E i \in 1 .. Len(buffer) : SameSpan(R, buffer[i]))
          => \A j \in 1 .. Len(PickedBuffer(ed)) : ~SameSpan(R, PickedBuffer(ed)[j])

(***************************************************************************)
(* The .drn files (SpecFile).                                              *)
(***************************************************************************)
\* C31: load_drn_file on a file whose #u:/#b: header pair is missing or
\* malformed (no header lines, fewer than two lines in the file, a non-numeric
\* or an incomplete quadruple) completes without failure and leaves
\* underline_buffer and bold_buffer empty.
C31_BadHeaderTolerated ==
    (ev.type = "OpenDrn" /\ ev.key \in BadHeaderFiles)
    => /\ ~ed.crashed
       /\ ed.underline_buffer = <<>>
       /\ ed.bold_buffer = <<>>

\* C32: writing the document with save_to_drn_file and reading the file back
\* with load_drn_file restores the same sequence of lines and the same
\* underline and bold buffers.
C32_RoundTrip ==
    ev.type = "Reopen"
    => /\ ~ed.crashed
       /\ Texts(ed) = Texts(pre)
       /\ ed.underline_buffer = pre.underline_buffer
       /\ ed.bold_buffer = pre.bold_buffer

(***************************************************************************)
(* The expressions of the compiler (SpecTesl).                             *)
(***************************************************************************)
\* Number of lines of the token sequence that hold a token.
NonBlankLines(tokens) ==
    Cardinality({i \in 1 .. Len(tokens) :
                    tokens[i].t # "NewLine" /\ (i = 1 \/ tokens[i - 1].t = "NewLine")})

\* C33: create_expressions(input) returns the tokens of the input split at the
\* line breaks: one expression per non-blank line, in source order, none
\* empty and none with a NewLine token; the result depends on the input only,
\* not on the calls made earlier on the same Compiler.
C33_ExpressionsOfInput ==
    call.fn = "create_expressions"
    => LET tokens == tokenize(scan(NewLexer, call.other, 1).result).tokens
           expressions == call.ret.expressions
       IN /\ call.ret.ok
          /\ \A i \in 1 .. Len(expressions) :
                /\ expressions[i] # <<>>
                /\ \A j \in 1 .. Len(expressions[i]) : expressions[i][j].t # "NewLine"
          /\ Characters(expressions) = SelectSeq(tokens, LAMBDA t : t.t # "NewLine")
          /\ Len(expressions) = NonBlankLines(tokens)
          /\ expressions = create_expressions(NewCompiler, call.other).expressions

====
